---- MODULE Spec2Model ----
(***************************************************************************)
(* Model of the extraction pipeline of services/llm:                       *)
(*   router/classifier.py, router/query_router.py, workers/base.py,        *)
(*   aggregator/entity_merger.py, aggregator/haiku_aggregator.py and       *)
(*   routes_extraction.py.                                                 *)
(*                                                                         *)
(* Data encoding.                                                          *)
(*  - A Python dict entity is a function from key strings to values; a key *)
(*    that is missing from the dict is missing from the DOMAIN.            *)
(*  - A value is a record [kind, s, n, d, l]: kind "null" is Python None,  *)
(*    "str" a string (s = its characters), "num" the number n/d in lowest  *)
(*    terms, "list" a list of small integers l, "dict" a nested dict of    *)
(*    which only the textual rendering s matters.                          *)
(*  - Floats are exact rationals n/d (d > 0); comparisons cross-multiply.  *)
(*  - A Python exception is the flag exc = TRUE of an operator's result.   *)
(*  - str(entity) is rendered at token granularity (one token per key,     *)
(*    character, number or bracket) and difflib's ratio is computed over   *)
(*    the tokens; names and emails are compared character by character.    *)
(***************************************************************************)
EXTENDS Integers, Sequences, FiniteSets, TLC

(***************************************************************************)
(* Bounds of the model.                                                    *)
(***************************************************************************)
MaxEntities == 3

MaxValidated == 2

MaxInstructions == 2

MaxSignals == 3

MaxForced == 2

MaxOrdered == 4

MaxClassified == 4

\* pieces in a text or raw response
MaxPieces == 2

\* entities in a list whose duplicates are reconciled
MaxReconciled == 3

\* most worker loops PipelineManager.initialize starts (settings.num_workers)
MaxLoops == 2

\* most calls of PipelineManager.generate
MaxCalls == 3

(***************************************************************************)
(* Values and dict access.                                                 *)
(***************************************************************************)
RECURSIVE Gcd(_, _)
Gcd(a, b) == IF b = 0 THEN a ELSE Gcd(b, a % b)

Abs(x) == IF x < 0 THEN -x ELSE x

Null == [kind |-> "null", s |-> <<>>, n |-> 0, d |-> 1, l |-> <<>>]

Str(chars) == [kind |-> "str", s |-> chars, n |-> 0, d |-> 1, l |-> <<>>]

Num(n, d) ==
    LET g == IF n = 0 THEN d ELSE Gcd(Abs(n), d)
    IN [kind |-> "num", s |-> <<>>, n |-> n \div g, d |-> d \div g, l |-> <<>>]

List(xs) == [kind |-> "list", s |-> <<>>, n |-> 0, d |-> 1, l |-> xs]

Dict(render) == [kind |-> "dict", s |-> render, n |-> 0, d |-> 1, l |-> <<>>]

\* dict.get(key, default)
Get(e, key, default) == IF key \in DOMAIN e THEN e[key] ELSE default

\* dict.get(key): None when the key is missing
GetOrNone(e, key) == Get(e, key, Null)

\* Python truthiness of a value
Truthy(v) ==
    CASE v.kind = "null" -> FALSE
      [] v.kind = "str"  -> v.s # <<>>
      [] v.kind = "num"  -> v.n # 0
      [] v.kind = "list" -> v.l # <<>>
      [] OTHER           -> v.s # <<>>

\* x <= y, x < y over rationals with positive denominators
RatLeq(x, y) == x.n * y.d <= y.n * x.d

RatLess(x, y) == x.n * y.d < y.n * x.d

(***************************************************************************)
(* Strings: str.lower() and str.split() over the model's alphabet.         *)
(***************************************************************************)
LowerChar(c) ==
    CASE c = "A" -> "a"
      [] c = "B" -> "b"
      [] c = "C" -> "c"
      [] c = "K" -> "k"
      [] c = "M" -> "m"
      [] c = "T" -> "t"
      [] OTHER   -> c

Lower(chars) == [i \in 1..Len(chars) |-> LowerChar(chars[i])]

RECURSIVE SplitFrom(_, _, _)
\* words of chars[i..], cur is the word being read
SplitFrom(chars, i, cur) ==
    IF i > Len(chars)
    THEN IF cur = <<>> THEN <<>> ELSE <<cur>>
    ELSE IF chars[i] = " "
         THEN (IF cur = <<>> THEN <<>> ELSE <<cur>>) \o SplitFrom(chars, i + 1, <<>>)
         ELSE SplitFrom(chars, i + 1, Append(cur, chars[i]))

Split(chars) == SplitFrom(chars, 1, <<>>)

Range(seq) == {seq[i] : i \in 1..Len(seq)}

(***************************************************************************)
(* difflib.SequenceMatcher(None, a, b).ratio(): the longest matching block *)
(* (earliest in a, then earliest in b), then recursively the pieces to its *)
(* left and right; ratio = 2 * matches / (len(a) + len(b)), 1.0 when both  *)
(* are empty.  (autojunk only applies to sequences of 200 or more items.)  *)
(***************************************************************************)
RECURSIVE MatchRun(_, _, _, _, _, _)
MatchRun(a, b, i, j, ahi, bhi) ==
    IF i > ahi \/ j > bhi THEN 0
    ELSE IF a[i] # b[j] THEN 0
    ELSE 1 + MatchRun(a, b, i + 1, j + 1, ahi, bhi)

MaxIn(sizes) == CHOOSE m \in sizes : \A x \in sizes : x <= m

LongestWith(runs, size) == {p \in DOMAIN runs : runs[p] = size}

LongestFrom(runs) == LongestWith(runs, MaxIn({runs[q] : q \in DOMAIN runs}))

\* the starts of the longest runs, then the earliest in a, then in b
LongestStarts(a, b, ahi, bhi, starts) ==
    LongestFrom([p \in starts |-> MatchRun(a, b, p[1], p[2], ahi, bhi)])

EarliestInA(longest) == {p \in longest : \A q \in longest : p[1] <= q[1]}

EarliestInB(firstA) == CHOOSE p \in firstA : \A q \in firstA : p[2] <= q[2]

BlockAt(a, b, ahi, bhi, best) ==
    <<best[1], best[2], MatchRun(a, b, best[1], best[2], ahi, bhi)>>

\* find_longest_match over a[alo..ahi], b[blo..bhi]: <<i, j, size>>
FindLongestMatch(a, b, alo, ahi, blo, bhi) ==
    IF alo > ahi \/ blo > bhi THEN <<alo, blo, 0>>
    ELSE BlockAt(a, b, ahi, bhi,
                 EarliestInB(EarliestInA(
                     LongestStarts(a, b, ahi, bhi, (alo..ahi) \X (blo..bhi)))))

RECURSIVE MatchingTotal(_, _, _, _, _, _)
RECURSIVE MatchingAround(_, _, _, _, _, _, _)
\* the matches of block m plus those to its left and to its right
MatchingAround(a, b, alo, ahi, blo, bhi, m) ==
    IF m[3] = 0 THEN 0
    ELSE m[3] + MatchingTotal(a, b, alo, m[1] - 1, blo, m[2] - 1)
              + MatchingTotal(a, b, m[1] + m[3], ahi, m[2] + m[3], bhi)

\* sum of the sizes of get_matching_blocks()
MatchingTotal(a, b, alo, ahi, blo, bhi) ==
    MatchingAround(a, b, alo, ahi, blo, bhi,
                   FindLongestMatch(a, b, alo, ahi, blo, bhi))

Ratio(a, b) ==
    IF Len(a) + Len(b) = 0 THEN Num(1, 1)
    ELSE Num(2 * MatchingTotal(a, b, 1, Len(a), 1, Len(b)), Len(a) + Len(b))

(***************************************************************************)
(* EntityMerger: the comparators.  A similarity is [exc, n, d, reason]:    *)
(* the float n/d and the merge_type, or exc = TRUE when the code raises.   *)
(***************************************************************************)
SIMILARITY_THRESHOLD == Num(85, 100)

Sim(r, reason) == [exc |-> FALSE, n |-> r.n, d |-> r.d, reason |-> reason]

SimRaised == [exc |-> TRUE, n |-> 0, d |-> 1, reason |-> "raised"]

Tag(name) == Str(<<name>>)

\* a.get(key, '').lower(): AttributeError unless the value is a string
LowerOf(e, key) ==
    LET v == Get(e, key, Str(<<>>))
    IN IF v.kind = "str" THEN [exc |-> FALSE, s |-> Lower(v.s)]
       ELSE [exc |-> TRUE, s |-> <<>>]

Max(x, y) == IF x >= y THEN x ELSE y

\* lines 109-113: the token overlap of two lower-cased names
NameOverlap(parts_a, parts_b) ==
    IF parts_a \cap parts_b # {}
    THEN Sim(Num(Cardinality(parts_a \cap parts_b),
                 Max(Cardinality(parts_a), Cardinality(parts_b))), "name_overlap")
    ELSE Sim(Num(0, 1), "no_match")

\* lines 104-115
NameSimilarity(name_a, name_b, similarity) ==
    IF name_a # <<>> /\ name_b # <<>>
    THEN IF RatLess(Num(9, 10), similarity) THEN Sim(similarity, "name_match")
         ELSE NameOverlap(Range(Split(name_a)), Range(Split(name_b)))
    ELSE Sim(Num(0, 1), "no_match")

\* lines 95-115, from the four lower-cased fields
PersonCompare(email_a, email_b, name_a, name_b) ==
    IF email_a.exc \/ email_b.exc THEN SimRaised
    ELSE IF email_a.s # <<>> /\ email_b.s # <<>> /\ email_a.s = email_b.s
    THEN Sim(Num(1, 1), "email_match")
    ELSE IF name_a.exc \/ name_b.exc THEN SimRaised
    ELSE NameSimilarity(name_a.s, name_b.s, Ratio(name_a.s, name_b.s))

_person_similarity(a, b) ==
    PersonCompare(LowerOf(a, "email"), LowerOf(b, "email"),
                  LowerOf(a, "name"), LowerOf(b, "name"))

ORG_SUFFIX_WORDS ==
    { <<"i", "n", "c">>, <<"l", "l", "c">>, <<"l", "t", "d">>,
      <<"c", "o", "r", "p">>,
      <<"c", "o", "r", "p", "o", "r", "a", "t", "i", "o", "n">>,
      <<"c", "o", "m", "p", "a", "n", "y">>, <<"c", "o">> }

RECURSIVE Join(_)
\* ' '.join(words)
Join(words) ==
    IF words = <<>> THEN <<>>
    ELSE IF Len(words) = 1 THEN words[1]
    ELSE words[1] \o <<" ">> \o Join(Tail(words))

\* Over an alphabet of letters and blanks, re.sub(r'\b<suffix>\.?\b', '')
\* deletes exactly the words equal to a suffix; ' '.join(name.split())
\* then collapses the blanks.
_normalize_org_name(chars) ==
    Join(SelectSeq(Split(Lower(chars)), LAMBDA w : w \notin ORG_SUFFIX_WORDS))

\* lines 125-129, from the two normalized names
OrgCompare(name_a, name_b) ==
    IF name_a = name_b THEN Sim(Num(1, 1), "exact_match")
    ELSE Sim(Ratio(name_a, name_b), "fuzzy_match")

_org_similarity(a, b) ==
    IF Get(a, "name", Str(<<>>)).kind # "str" \/ Get(b, "name", Str(<<>>)).kind # "str"
    THEN SimRaised
    ELSE OrgCompare(_normalize_org_name(Get(a, "name", Str(<<>>)).s),
                    _normalize_org_name(Get(b, "name", Str(<<>>)).s))

\* line 146
DateCompare(norm_a, norm_b) ==
    IF Truthy(norm_a) /\ Truthy(norm_b) /\ norm_a = norm_b
    THEN Sim(Num(1, 1), "date_match")
    ELSE Sim(Num(0, 1), "no_match")

_date_similarity(a, b) ==
    DateCompare(GetOrNone(a, "normalized_date"), GetOrNone(b, "normalized_date"))

\* line 163: min(val_a, val_b) / max(val_a, val_b) if max > 0 else 0
MinOverMax(lo, hi) ==
    IF hi.n > 0 THEN Num(lo.n * hi.d, lo.d * hi.n) ELSE Num(0, 1)

\* lines 164-167
AmountRatio(ratio) ==
    IF RatLess(Num(99, 100), ratio) THEN Sim(ratio, "similar_amount")
    ELSE Sim(Num(0, 1), "no_match")

\* lines 159-167; min, max and / raise TypeError on values that are not numbers
AmountCompare(val_a, val_b) ==
    IF Truthy(val_a) /\ Truthy(val_b)
    THEN IF val_a = val_b THEN Sim(Num(1, 1), "exact_amount")
         ELSE IF val_a.kind # "num" \/ val_b.kind # "num" THEN SimRaised
         ELSE IF RatLeq(val_a, val_b) THEN AmountRatio(MinOverMax(val_a, val_b))
         ELSE AmountRatio(MinOverMax(val_b, val_a))
    ELSE Sim(Num(0, 1), "no_match")

_amount_similarity(a, b) ==
    AmountCompare(Get(a, "normalized_value", Num(0, 1)),
                  Get(b, "normalized_value", Num(0, 1)))

\* The keys of the model's entities, in the order str(dict) shows them.
KeyOrder ==
    << "type", "content", "value", "name", "email", "normalized_date", "normalized_value",
       "confidence", "source", "metadata", "_source_worker",
       "_extraction_confidence", "_merged_from", "_merge_confidence" >>

ReprVal(v) ==
    CASE v.kind = "null" -> <<"None">>
      [] v.kind = "str"  -> <<"'">> \o v.s \o <<"'">>
      [] v.kind = "num"  -> <<ToString(v.n), "/", ToString(v.d)>>
      [] v.kind = "list" -> <<"[">> \o [i \in 1..Len(v.l) |-> ToString(v.l[i])] \o <<"]">>
      [] OTHER           -> <<"{">> \o v.s \o <<"}">>

RECURSIVE ReprFrom(_, _)
ReprFrom(e, k) ==
    IF k > Len(KeyOrder) THEN <<>>
    ELSE IF KeyOrder[k] \in DOMAIN e
         THEN <<KeyOrder[k]>> \o ReprVal(e[KeyOrder[k]]) \o ReprFrom(e, k + 1)
         ELSE ReprFrom(e, k + 1)

\* str(entity)
Repr(e) == ReprFrom(e, 1)

_generic_similarity(a, b) == Sim(Ratio(Repr(a), Repr(b)), "generic")

\* lines 79-88: the comparator of a category, type_a being the shared tag
CompareAs(type_a, entity_a, entity_b) ==
    IF type_a = Tag("person") THEN _person_similarity(entity_a, entity_b)
    ELSE IF type_a = Tag("org") THEN _org_similarity(entity_a, entity_b)
    ELSE IF type_a = Tag("date") THEN _date_similarity(entity_a, entity_b)
    ELSE IF type_a = Tag("amount") THEN _amount_similarity(entity_a, entity_b)
    ELSE _generic_similarity(entity_a, entity_b)

\* Variant without the cross-category guard of lines 76-77.
CalculateSimilarityUnguarded(entity_a, entity_b) ==
    CompareAs(Get(entity_a, "_source_worker", Str(<<>>)), entity_a, entity_b)

_calculate_similarity(entity_a, entity_b) ==
    IF Get(entity_a, "_source_worker", Str(<<>>)) # Get(entity_b, "_source_worker", Str(<<>>))
    THEN Sim(Num(0, 1), "different_type")
    ELSE CompareAs(Get(entity_a, "_source_worker", Str(<<>>)), entity_a, entity_b)

(***************************************************************************)
(* EntityMerger.find_duplicates / merge_entities.  Indices are 0-based as  *)
(* in the code; entities[i] of the code is entities[i + 1] here.           *)
(***************************************************************************)
RECURSIVE PairsFrom(_, _, _)
\* the pairs (i, j), i < j < n, in the order of the two nested loops
PairsFrom(i, j, n) ==
    IF i >= n THEN <<>>
    ELSE IF j >= n THEN PairsFrom(i + 1, i + 2, n)
    ELSE <<<<i, j>>>> \o PairsFrom(i, j + 1, n)

\* lines 28-34 for the pair (i, j) of similarity sim, rest being the
\* outcome of the later pairs
CandidateStep(i, j, sim, rest) ==
    IF sim.exc \/ rest.exc THEN [exc |-> TRUE, cands |-> <<>>]
    ELSE IF RatLeq(SIMILARITY_THRESHOLD, sim)
         THEN [exc |-> FALSE,
               cands |-> <<[index_a |-> i, index_b |-> j, n |-> sim.n,
                            d |-> sim.d, merge_type |-> sim.reason]>> \o rest.cands]
         ELSE rest

RECURSIVE CandidatesOf(_, _, _)
\* the loops of find_duplicates over pairs[k..]
CandidatesOf(entities, pairs, k) ==
    IF k > Len(pairs) THEN [exc |-> FALSE, cands |-> <<>>]
    ELSE CandidateStep(pairs[k][1], pairs[k][2],
                       _calculate_similarity(entities[pairs[k][1] + 1],
                                             entities[pairs[k][2] + 1]),
                       CandidatesOf(entities, pairs, k + 1))

find_duplicates(entities) ==
    CandidatesOf(entities, PairsFrom(0, 1, Len(entities)), 1)

\* x put behind the candidates of front that are at least as similar
InsertBehindEquals(front, x) ==
    SubSeq(front, 1, Cardinality({p \in 1..Len(front) : RatLeq(x, front[p])}))
    \o <<x>>
    \o SubSeq(front, Cardinality({p \in 1..Len(front) : RatLeq(x, front[p])}) + 1,
              Len(front))

\* Variant that walks the candidates in find_duplicates order.
Unsorted(cands) == cands

RECURSIVE SortedBySimilarity(_)
\* sorted(candidates, key=similarity, reverse=True): stable, so candidates
\* of equal similarity keep their find_duplicates order
SortedBySimilarity(cands) ==
    IF cands = <<>> THEN <<>>
    ELSE InsertBehindEquals(SortedBySimilarity(SubSeq(cands, 1, Len(cands) - 1)),
                            cands[Len(cands)])

RECURSIVE UnionList(_)
\* list(set(val_a + val_b)), shown in increasing order
UnionList(items) ==
    IF items = {} THEN <<>>
    ELSE LET m == CHOOSE x \in items : \A y \in items : x <= y
         IN <<m>> \o UnionList(items \ {m})

\* len(str(value))
StrLen(v) ==
    CASE v.kind = "str"  -> Len(v.s)
      [] v.kind = "null" -> 4
      [] v.kind = "num"  -> Len(ReprVal(v))
      [] v.kind = "list" -> Len(ReprVal(v))
      [] OTHER           -> Len(v.s) + 2

\* lines 198-204: the numeric value of the more confident side; >= raises
\* TypeError when a confidence is None
ByConfidence(val_a, val_b, conf_a, conf_b) ==
    IF conf_a.kind # "num" \/ conf_b.kind # "num" THEN [exc |-> TRUE, v |-> Null]
    ELSE IF RatLeq(conf_b, conf_a) THEN [exc |-> FALSE, v |-> val_a]
    ELSE [exc |-> FALSE, v |-> val_b]

\* Variant that keeps the value of a whenever a has one.
MergedFieldPreferringFirst(a, b, val_a, val_b) ==
    [exc |-> FALSE, v |-> IF val_a.kind = "null" THEN val_b ELSE val_a]

\* lines 192-208: the value stored under key, val_a and val_b being
\* a.get(key) and b.get(key)
MergedField(a, b, val_a, val_b) ==
    IF val_a.kind = "null" THEN [exc |-> FALSE, v |-> val_b]
    ELSE IF val_b.kind = "null" THEN [exc |-> FALSE, v |-> val_a]
    ELSE IF val_a.kind = "list" /\ val_b.kind = "list"
    THEN [exc |-> FALSE, v |-> List(UnionList(Range(val_a.l) \cup Range(val_b.l)))]
    ELSE IF val_a.kind = "num" /\ val_b.kind = "num"
    THEN ByConfidence(val_a, val_b, Get(a, "confidence", Num(1, 2)),
                      Get(b, "confidence", Num(1, 2)))
    ELSE IF StrLen(val_a) >= StrLen(val_b) THEN [exc |-> FALSE, v |-> val_a]
    ELSE [exc |-> FALSE, v |-> val_b]

\* lines 210-214: max() raises TypeError when a confidence is None
WithMaxConfidence(fields, conf_a, conf_b) ==
    IF (\E key \in DOMAIN fields : fields[key].exc)
       \/ conf_a.kind # "num" \/ conf_b.kind # "num"
    THEN [exc |-> TRUE, e |-> <<>>]
    ELSE [exc |-> FALSE,
          e |-> ("confidence" :> (IF RatLeq(conf_b, conf_a) THEN conf_a ELSE conf_b))
                @@ [key \in DOMAIN fields |-> fields[key].v]]

_merge_two_entities(a, b) ==
    WithMaxConfidence(
        [key \in DOMAIN a \cup DOMAIN b |->
            MergedField(a, b, GetOrNone(a, key), GetOrNone(b, key))],
        Get(a, "confidence", Num(1, 2)), Get(b, "confidence", Num(1, 2)))

\* Variant that only looks at index_a.
MergesLookingAtFirstOnly(candidate, merged_indices) ==
    candidate.index_a \notin merged_indices

\* Variant that merges every candidate.
MergesAlways(candidate, merged_indices) == TRUE

\* Variant that stops merging after the first merge.
MergesWhileNoneMerged(candidate, merged_indices) == merged_indices = {}

\* does the loop of merge_entities merge the candidate, given merged_indices
Merges(candidate, merged_indices) ==
    ~ (candidate.index_a \in merged_indices \/ candidate.index_b \in merged_indices)

\* Variant in which the fields of the merged entity win over the provenance.
MergedRecordUnlessPresent(candidate, merged) ==
    merged
    @@ ("_merged_from" :> List(<<candidate.index_a, candidate.index_b>>))
    @@ ("_merge_confidence" :> Num(candidate.n, candidate.d))

\* lines 54-56: the merged record with its provenance
MergedRecord(candidate, merged) ==
    ("_merged_from" :> List(<<candidate.index_a, candidate.index_b>>))
    @@ ("_merge_confidence" :> Num(candidate.n, candidate.d))
    @@ merged

RECURSIVE MergeLoop(_, _, _, _, _)
RECURSIVE MergeStep(_, _, _, _, _, _)
\* lines 51-60 for sorted[k], two being the outcome of _merge_two_entities
MergeStep(entities, sorted, k, merged_indices, merged_entities, two) ==
    IF two.exc
    THEN [exc |-> TRUE, merged_indices |-> {}, merged_entities |-> <<>>]
    ELSE MergeLoop(entities, sorted, k + 1,
                   merged_indices \cup {sorted[k].index_a, sorted[k].index_b},
                   Append(merged_entities, MergedRecord(sorted[k], two.e)))

\* the first loop of merge_entities over sorted[k..]
MergeLoop(entities, sorted, k, merged_indices, merged_entities) ==
    IF k > Len(sorted)
    THEN [exc |-> FALSE, merged_indices |-> merged_indices,
          merged_entities |-> merged_entities]
    ELSE IF ~ Merges(sorted[k], merged_indices)
    THEN MergeLoop(entities, sorted, k + 1, merged_indices, merged_entities)
    ELSE MergeStep(entities, sorted, k, merged_indices, merged_entities,
                   _merge_two_entities(entities[sorted[k].index_a + 1],
                                       entities[sorted[k].index_b + 1]))

RECURSIVE Untouched(_, _, _)
\* the second loop of merge_entities over the 0-based indices i..
Untouched(entities, merged_indices, i) ==
    IF i >= Len(entities) THEN <<>>
    ELSE IF i \in merged_indices THEN Untouched(entities, merged_indices, i + 1)
    ELSE <<entities[i + 1]>> \o Untouched(entities, merged_indices, i + 1)

\* the return value of merge_entities, from the outcome of its first loop
MergeReturn(entities, loop) ==
    IF loop.exc
    THEN [exc |-> TRUE, out |-> <<>>, nmerged |-> 0, consumed |-> {}]
    ELSE [exc |-> FALSE,
          out |-> loop.merged_entities \o Untouched(entities, loop.merged_indices, 0),
          nmerged |-> Len(loop.merged_entities), consumed |-> loop.merged_indices]

\* lines 42-66, found being the outcome of find_duplicates
MergeFound(entities, found) ==
    IF found.exc
    THEN [exc |-> TRUE, out |-> <<>>, nmerged |-> 0, consumed |-> {}]
    ELSE MergeReturn(entities,
                     MergeLoop(entities, SortedBySimilarity(found.cands), 1, {}, <<>>))

\* Result: exc (the call raised), out (the returned list), nmerged (how many
\* of its leading records are merged records), consumed (merged_indices).
merge_entities(entities) ==
    IF entities = <<>>
    THEN [exc |-> FALSE, out |-> <<>>, nmerged |-> 0, consumed |-> {}]
    ELSE MergeFound(entities, find_duplicates(entities))

(***************************************************************************)
(* HaikuAggregator.  A ValidationResult is [status, confidence, entities,  *)
(* corrections, graph_operations]; corrections and oracle-made graph       *)
(* operations are opaque items.                                            *)
(***************************************************************************)
\* key.startswith('_') over the keys of KeyOrder
StartsWithUnderscore(key) ==
    key \in {"_source_worker", "_extraction_confidence", "_merged_from",
             "_merge_confidence"}

\* Variant that looks the label up under the category names of the classifier.
PassthroughLabelByCategoryName(worker_type) ==
    CASE worker_type = Tag("date")         -> "Date"
      [] worker_type = Tag("person")       -> "Person"
      [] worker_type = Tag("organization") -> "Organization"
      [] worker_type = Tag("amount")       -> "Amount"
      [] OTHER                             -> "Entity"

\* label_map.get(worker_type, 'Entity')
PassthroughLabel(worker_type) ==
    CASE worker_type = Tag("date")   -> "Date"
      [] worker_type = Tag("person") -> "Person"
      [] worker_type = Tag("org")    -> "Organization"
      [] worker_type = Tag("amount") -> "Amount"
      [] OTHER                       -> "Entity"

\* {k: v for k, v in entity.items() if not k.startswith('_')}
PassthroughProps(entity) ==
    [k \in {key \in DOMAIN entity : ~ StartsWithUnderscore(key)} |-> entity[k]]

PassthroughOperation(entity) ==
    [operation |-> "CREATE_NODE",
     label |-> PassthroughLabel(Get(entity, "_source_worker", Tag("general"))),
     properties |-> PassthroughProps(entity)]

_passthrough_validation(entities) ==
    [status |-> "valid", confidence |-> Num(7, 10), entities |-> entities,
     corrections |-> <<>>,
     graph_operations |-> [i \in 1..Len(entities) |-> PassthroughOperation(entities[i])]]

\* status_map.get(data.get("status", "valid"), ValidationStatus.VALID)
MappedStatus(status) ==
    CASE status = "valid"        -> "valid"
      [] status = "invalid"      -> "invalid"
      [] status = "needs_review" -> "needs_review"
      [] OTHER                   -> "valid"

RECURSIVE SortedDescending(_)
\* sorted(indices, reverse=True)
SortedDescending(indices) ==
    IF indices = <<>> THEN <<>>
    ELSE LET k == CHOOSE p \in 1..Len(indices) :
                      \A q \in 1..Len(indices) : indices[q] <= indices[p]
         IN <<indices[k]>>
            \o SortedDescending(SubSeq(indices, 1, k - 1)
                                \o SubSeq(indices, k + 1, Len(indices)))

\* list.pop(idx) for -len <= idx < len
Popped(list, idx) ==
    IF idx >= 0
    THEN SubSeq(list, 1, idx) \o SubSeq(list, idx + 2, Len(list))
    ELSE SubSeq(list, 1, Len(list) + idx) \o SubSeq(list, Len(list) + idx + 2, Len(list))

RECURSIVE PopAll(_, _, _)
\* lines 155-157 over sorted[k..]; pop raises IndexError below -len.
\* Result: exc and the list as the loop left it.
PopAll(validated, sorted, k) ==
    IF k > Len(sorted) THEN [exc |-> FALSE, list |-> validated]
    ELSE IF ~ (sorted[k] < Len(validated)) THEN PopAll(validated, sorted, k + 1)
    ELSE IF sorted[k] < - Len(validated) THEN [exc |-> TRUE, list |-> validated]
    ELSE PopAll(Popped(validated, sorted[k]), sorted, k + 1)

\* line 158, after the pops
AppendMerged(popped, merged) ==
    IF popped.exc THEN popped
    ELSE [exc |-> FALSE, list |-> Append(popped.list, merged)]

\* lines 152-158 for one instruction.  merge.get raises AttributeError when
\* the instruction is not an object.
ApplyInstruction(validated, merge) ==
    IF merge.kind # "object" THEN [exc |-> TRUE, list |-> validated]
    ELSE IF merge.has_merged /\ DOMAIN merge.merged_entity # {} /\ merge.indices # <<>>
    THEN AppendMerged(PopAll(validated, SortedDescending(merge.indices), 1),
                      merge.merged_entity)
    ELSE [exc |-> FALSE, list |-> validated]

RECURSIVE ApplyInstructions(_, _, _)
RECURSIVE ApplyNext(_, _, _)
ApplyNext(applied, merges, k) ==
    IF applied.exc THEN applied ELSE ApplyInstructions(applied.list, merges, k + 1)

\* the loop of lines 151-158 over merges[k..]
ApplyInstructions(validated, merges, k) ==
    IF k > Len(merges) THEN [exc |-> FALSE, list |-> validated]
    ELSE ApplyNext(ApplyInstruction(validated, merges[k]), merges, k)

\* lines 160-167
ParsedResult(data, validated) ==
    [status |-> MappedStatus(IF data.has_status THEN data.status ELSE "valid"),
     confidence |-> IF data.has_confidence THEN data.confidence ELSE Num(8, 10),
     entities |-> validated,
     corrections |-> data.corrections,
     graph_operations |-> data.graph_operations]

\* The outcome of validate_and_aggregate once the list `validated` has been
\* run through the instructions: exc (the call raised), result, and
\* caller (the caller's list afterwards; `validated` is that very list when
\* the verdict has no validated_entities).
AfterInstructions(data, entities, applied) ==
    IF applied.exc
    THEN [exc |-> FALSE,
          result |-> _passthrough_validation(
                         IF data.has_validated THEN entities ELSE applied.list),
          caller |-> IF data.has_validated THEN entities ELSE applied.list]
    ELSE [exc |-> FALSE,
          result |-> ParsedResult(data, applied.list),
          caller |-> IF data.has_validated THEN entities ELSE applied.list]

\* _parse_validation_response on a response holding the object `data`
ParseObject(data, original_entities) ==
    AfterInstructions(data, original_entities,
        ApplyInstructions(IF data.has_validated THEN data.validated_entities
                          ELSE original_entities,
                          data.duplicates_to_merge, 1))

Unchanged(entities) ==
    [exc |-> FALSE, result |-> _passthrough_validation(entities), caller |-> entities]

\* validate_and_aggregate(entities, ...) of an aggregator whose `enabled`
\* is given, the oracle answering with `oracle`
validate_and_aggregate(enabled, entities, oracle) ==
    IF ~ enabled THEN Unchanged(entities)
    ELSE IF oracle.kind \in {"transport_error", "timeout", "http_error", "bad_envelope"}
    THEN Unchanged(entities)
    ELSE IF oracle.kind \in {"no_object", "bad_json"} THEN Unchanged(entities)
    ELSE ParseObject(oracle.data, entities)

(***************************************************************************)
(* QueryClassifier.classify.  A query is what the classifier reads of the  *)
(* text: how many keywords of each list occur in it, how many matches the  *)
(* date and the amount patterns find and how many e-mail addresses.        *)
(* Scores are in hundredths.                                               *)
(***************************************************************************)
KEYWORD_SCORE == 15

PATTERN_SCORE == 30

EMAIL_SCORE == 25

GENERAL_SCORE == 10

MAX_SCORE == 100

HIGH_SCORE == 30

RELEVANT_SCORE == 20

\* the keys of `scores`, in insertion order
QueryTypes == <<"date", "person", "org", "amount", "general">>

Min(a, b) == IF a <= b THEN a ELSE b

\* Variant without the clamp of lines 133-134.
ScoreUnclamped(query, t) ==
    CASE t = "date"   -> KEYWORD_SCORE * query.date_kw + PATTERN_SCORE * query.date_pat
      [] t = "person" -> KEYWORD_SCORE * query.person_kw + EMAIL_SCORE * query.emails
      [] t = "org"    -> KEYWORD_SCORE * query.org_kw
      [] t = "amount" -> KEYWORD_SCORE * query.amount_kw + PATTERN_SCORE * query.amount_pat
      [] OTHER        -> GENERAL_SCORE

\* scores[t] after the keyword, pattern and e-mail loops and the clamp
Score(query, t) ==
    Min(MAX_SCORE,
        CASE t = "date"   -> KEYWORD_SCORE * query.date_kw + PATTERN_SCORE * query.date_pat
          [] t = "person" -> KEYWORD_SCORE * query.person_kw + EMAIL_SCORE * query.emails
          [] t = "org"    -> KEYWORD_SCORE * query.org_kw
          [] t = "amount" -> KEYWORD_SCORE * query.amount_kw + PATTERN_SCORE * query.amount_pat
          [] OTHER        -> GENERAL_SCORE)

\* scores.items()
ScoreItems(query) ==
    [k \in 1..Len(QueryTypes) |-> [type |-> QueryTypes[k], score |-> Score(query, QueryTypes[k])]]

RECURSIVE InsertByScore(_, _)
\* the item goes behind every entry whose score is not lower (stable sort)
InsertByScore(sorted, item) ==
    IF sorted = <<>> THEN <<item>>
    ELSE IF Head(sorted).score >= item.score
         THEN <<Head(sorted)>> \o InsertByScore(Tail(sorted), item)
         ELSE <<item>> \o sorted

RECURSIVE SortedByScore(_, _)
\* sorted(items[1..k], key=score, reverse=True)
SortedByScore(items, k) ==
    IF k = 0 THEN <<>> ELSE InsertByScore(SortedByScore(items, k - 1), items[k])

\* Variant that never replaces the top entry by the multi marker.
ClassifiedByTopEntry(sorted_types) ==
    [primary_type |-> sorted_types[1].type,
     all_types |-> sorted_types,
     confidence |-> sorted_types[1].score]

\* lines 137-149: the ClassificationResult built from sorted_types
Classified(sorted_types) ==
    [primary_type |->
        IF Cardinality({k \in 1..Len(sorted_types) : sorted_types[k].score >= HIGH_SCORE}) > 1
        THEN "multi" ELSE sorted_types[1].type,
     all_types |-> sorted_types,
     confidence |-> sorted_types[1].score]

classify(query) == Classified(SortedByScore(ScoreItems(query), Len(QueryTypes)))

(***************************************************************************)
(* BaseWorker.extract.  A response is what parse_response made of the      *)
(* backend's text (entities) and whether the text says "uncertain" or      *)
(* "unclear" (hedged).                                                     *)
(***************************************************************************)
RatAdd(x, y) == Num(x.n * y.d + y.n * x.d, x.d * y.d)

RatHalf(x) == Num(x.n, 2 * x.d)

RatOver(x, n) == Num(x.n, n * x.d)

AtMostOne(x) == IF RatLeq(x, Num(1, 1)) THEN x ELSE Num(1, 1)

ConfidenceRaised == [exc |-> TRUE, v |-> Num(0, 1)]

Confidence(v) == [exc |-> FALSE, v |-> v]

\* sum + value; TypeError when the value is not a number
AddConfidence(sum, c) ==
    IF sum.exc \/ c.kind # "num" THEN ConfidenceRaised ELSE Confidence(RatAdd(sum.v, c))

RECURSIVE SumConfidence(_, _)
\* sum(e.get("confidence", 0.5) for e in entities[1..k])
SumConfidence(entities, k) ==
    IF k = 0 THEN Confidence(Num(0, 1))
    ELSE AddConfidence(SumConfidence(entities, k - 1),
                       Get(entities[k], "confidence", Num(1, 2)))

\* min(len(entities) / 10, 1.0) * 0.5, times 0.7 for a hedged response
BaseConfidence(n, hedged) ==
    IF hedged THEN Num(7 * Min(n, 10), 200) ELSE Num(Min(n, 10), 20)

\* lines 108-112 when some entity has a truthy confidence
AveragedConfidence(base_confidence, sum, n) ==
    IF sum.exc THEN ConfidenceRaised
    ELSE Confidence(AtMostOne(RatAdd(RatHalf(RatAdd(base_confidence, RatOver(sum.v, n))),
                                     Num(1, 2))))

_calculate_confidence(entities, hedged) ==
    IF entities = <<>> THEN Confidence(Num(0, 1))
    ELSE IF \E k \in 1..Len(entities) : "$item" \in DOMAIN entities[k]
    THEN ConfidenceRaised
    ELSE IF \E k \in 1..Len(entities) : Truthy(GetOrNone(entities[k], "confidence"))
         THEN AveragedConfidence(BaseConfidence(Len(entities), hedged),
                                 SumConfidence(entities, Len(entities)), Len(entities))
         ELSE Confidence(AtMostOne(RatAdd(BaseConfidence(Len(entities), hedged), Num(1, 2))))

NoExtraction == [worker_type |-> "none", entities |-> <<>>, confidence |-> Num(0, 1)]

\* the ExtractionResult, or the exception of _calculate_confidence
Extracted(worker_type, entities, confidence) ==
    [exc |-> confidence.exc,
     result |-> IF confidence.exc THEN NoExtraction
                ELSE [worker_type |-> worker_type, entities |-> entities,
                      confidence |-> confidence.v]]

extract(worker_type, response) ==
    Extracted(worker_type, response.entities,
              _calculate_confidence(response.entities, response.hedged))

(***************************************************************************)
(* The handlers' parse_response.  A text is a sequence of pieces, each a   *)
(* stretch of characters as the handlers' patterns see it: a bracketed     *)
(* stretch "[...]", a stretch one DATE_PATTERN matches, an e-mail address, *)
(* an organization name with its suffix, a currency symbol with the        *)
(* characters after it, a stretch that says "uncertain" or "unclear", or   *)
(* plain text that no pattern matches.  What strptime makes of a date and  *)
(* what the helpers of PersonWorker make of an address is carried by the   *)
(* piece; the amount pattern is applied to the characters.                 *)
(***************************************************************************)
Piece(kind) ==
    [kind |-> kind, chars |-> <<>>, pattern |-> 0, norm |-> Null, valid |-> FALSE,
     items |-> <<>>, symbol |-> "", name |-> <<>>, org |-> <<>>]

Plain == Piece("plain")

Hedge == Piece("hedge")

\* "[...]": valid says whether json.loads accepts it, items is what it holds
Bracketed(valid, items) == [Piece("array") EXCEPT !.valid = valid, !.items = items]

\* a match of DATE_PATTERNS[pattern]; norm is what _normalize_date returns
DateText(pattern, chars, norm) ==
    [Piece("date") EXCEPT !.pattern = pattern, !.chars = chars, !.norm = norm]

\* a match of EMAIL_PATTERN with the name and the organization derived from it
EmailText(chars, name, org) ==
    [Piece("email") EXCEPT !.chars = chars, !.name = name, !.org = org]

\* a match of one of PersonWorker.NAME_PATTERNS: a capitalized name
NameText(chars) == [Piece("name") EXCEPT !.chars = chars]

\* a match of the suffix pattern; chars is group(1).strip() + " " + group(2)
OrgText(chars) == [Piece("org") EXCEPT !.chars = chars]

\* a currency symbol (written by its code) and the characters after it
AmountText(symbol, chars) == [Piece("amount") EXCEPT !.symbol = symbol, !.chars = chars]

\* a JSON item that is not an object
Scalar(v) == ("$item" :> v)

IsObject(item) == "$item" \notin DOMAIN item

\* re.search(r'\[[\s\S]*\]', response): from the first "[" to the last "]"
Arrays(response) == {i \in 1..Len(response) : response[i].kind = "array"}

\* lines 55-62 of the workers: the items of the bracketed stretch when
\* json.loads accepts it; a stretch that runs over two bracketed pieces or
\* is not JSON raises JSONDecodeError, which is passed over
ParsedArray(response) ==
    IF Cardinality(Arrays(response)) = 1
    THEN IF response[CHOOSE i \in Arrays(response) : TRUE].valid
         THEN response[CHOOSE i \in Arrays(response) : TRUE].items
         ELSE <<>>
    ELSE <<>>

\* "uncertain" in response.lower() or "unclear" in response.lower()
Hedged(response) == \E i \in 1..Len(response) : response[i].kind = "hedge"

RECURSIVE AnyEquals(_, _, _, _)
\* any(e.get(key) == value for e in entities[k..]): "raised" is the
\* AttributeError of an item without get
AnyEquals(entities, key, value, k) ==
    IF k > Len(entities) THEN "none"
    ELSE IF ~ IsObject(entities[k]) THEN "raised"
    ELSE IF GetOrNone(entities[k], key) = value THEN "found"
    ELSE AnyEquals(entities, key, value, k + 1)

RECURSIVE AnyNamed(_, _, _)
\* any(e.get('name', '').lower() == org_name.lower() for e in entities[k..])
AnyNamed(entities, name, k) ==
    IF k > Len(entities) THEN "none"
    ELSE IF ~ IsObject(entities[k]) THEN "raised"
    ELSE IF Get(entities[k], "name", Str(<<>>)).kind # "str" THEN "raised"
    ELSE IF Lower(Get(entities[k], "name", Str(<<>>)).s) = Lower(name) THEN "found"
    ELSE AnyNamed(entities, name, k + 1)

(***************************************************************************)
(* AmountWorker: the pattern of line 80 on the characters after the symbol *)
(*   \s*(\d{1,3}(?:,\d{3})*(?:\.\d{1,2})?)\s*(million|billion|thousand|M|B|K)? *)
(* with re.IGNORECASE.  Every part after the first digits is optional, so  *)
(* the greedy match is the match.                                          *)
(***************************************************************************)
DIGITS == <<"0", "1", "2", "3", "4", "5", "6", "7", "8", "9">>

IsDigit(c) == c \in Range(DIGITS)

DigitValue(c) == (CHOOSE v \in 1..10 : DIGITS[v] = c) - 1

RECURSIVE SkipBlanks(_, _)
\* \s*: the first position from i on that holds no blank
SkipBlanks(chars, i) ==
    IF i <= Len(chars) /\ chars[i] = " " THEN SkipBlanks(chars, i + 1) ELSE i

RECURSIVE DigitsAt(_, _, _)
\* how many digits stand at chars[i..], counting up to max
DigitsAt(chars, i, max) ==
    IF max > 0 /\ i <= Len(chars) /\ IsDigit(chars[i])
    THEN 1 + DigitsAt(chars, i + 1, max - 1) ELSE 0

RECURSIVE GroupsEnd(_, _)
\* (?:,\d{3})* from position i: the position after the last group
GroupsEnd(chars, i) ==
    IF i <= Len(chars) /\ chars[i] = "," /\ DigitsAt(chars, i + 1, 3) = 3
    THEN GroupsEnd(chars, i + 4) ELSE i

\* (?:\.\d{1,2})? from position i
FractionEnd(chars, i) ==
    IF i <= Len(chars) /\ chars[i] = "." /\ DigitsAt(chars, i + 1, 2) >= 1
    THEN i + 1 + DigitsAt(chars, i + 1, 2) ELSE i

\* group(1) is chars[start..NumberEnd - 1]
NumberEnd(chars, start) ==
    FractionEnd(chars, GroupsEnd(chars, start + DigitsAt(chars, start, 3)))

\* chars[i..] starts with word, letter case ignored
StartsWith(chars, i, word) ==
    /\ i + Len(word) - 1 <= Len(chars)
    /\ \A k \in 1..Len(word) : LowerChar(chars[i + k - 1]) = word[k]

SCALE_WORDS ==
    << <<"m", "i", "l", "l", "i", "o", "n">>, <<"b", "i", "l", "l", "i", "o", "n">>,
       <<"t", "h", "o", "u", "s", "a", "n", "d">>, <<"m">>, <<"b">>, <<"k">> >>

\* group(2): the first alternative that matches at position i, or nothing
ScaleAt(chars, i) ==
    IF \E a \in 1..Len(SCALE_WORDS) : StartsWith(chars, i, SCALE_WORDS[a])
    THEN SubSeq(chars, i,
                i + Len(SCALE_WORDS[CHOOSE a \in 1..Len(SCALE_WORDS) :
                            /\ StartsWith(chars, i, SCALE_WORDS[a])
                            /\ \A b \in 1..(a - 1) : ~ StartsWith(chars, i, SCALE_WORDS[b])]) - 1)
    ELSE <<>>

\* MULTIPLIERS.get(multiplier.lower(), 1)
MULTIPLIERS(multiplier) ==
    CASE Lower(multiplier) \in {<<"t", "h", "o", "u", "s", "a", "n", "d">>, <<"k">>} -> 1000
      [] Lower(multiplier) \in {<<"m", "i", "l", "l", "i", "o", "n">>, <<"m">>} -> 1000000
      [] Lower(multiplier) \in {<<"b", "i", "l", "l", "i", "o", "n">>, <<"b">>} -> 1000000000
      [] OTHER -> 1

RECURSIVE DecimalFrom(_, _, _, _)
\* Decimal(num_str.replace(',', '')) read from chars[i..]: n over d so far,
\* in_fraction after the point
DecimalFrom(chars, i, acc, in_fraction) ==
    IF i > Len(chars) THEN Num(acc.n, acc.d)
    ELSE IF chars[i] = "," THEN DecimalFrom(chars, i + 1, acc, in_fraction)
    ELSE IF chars[i] = "." THEN DecimalFrom(chars, i + 1, acc, TRUE)
    ELSE DecimalFrom(chars, i + 1,
                     [n |-> 10 * acc.n + DigitValue(chars[i]),
                      d |-> IF in_fraction THEN 10 * acc.d ELSE acc.d],
                     in_fraction)

_parse_number(num_str) == DecimalFrom(num_str, 1, [n |-> 0, d |-> 1], FALSE)

\* amount * mult_value
Scaled(amount, factor) == Num(amount.n * factor, amount.d)

CURRENCY_SYMBOLS == <<"USD", "EUR", "GBP", "JPY", "INR", "RUB", "BTC", "CHF">>

\* does the pattern match at the symbol of the piece
AmountMatches(piece) ==
    piece.kind = "amount"
    /\ DigitsAt(piece.chars, SkipBlanks(piece.chars, 1), 3) >= 1

\* lines 84-104 for a match: start and stop are the ends of group(1), scale
\* is group(2) and begins at position at
AmountEntityFrom(piece, start, stop, at, scale) ==
    ("amount_string" :> Str(<<piece.symbol>> \o SubSeq(piece.chars, 1, at + Len(scale) - 1)))
    @@ ("amount" :> _parse_number(SubSeq(piece.chars, start, stop - 1)))
    @@ ("currency" :> Str(<<piece.symbol>>))
    @@ ("multiplier" :> (IF scale = <<>> THEN Null ELSE Str(scale)))
    @@ ("normalized_value" :>
            (IF scale = <<>> THEN _parse_number(SubSeq(piece.chars, start, stop - 1))
             ELSE Scaled(_parse_number(SubSeq(piece.chars, start, stop - 1)),
                         MULTIPLIERS(scale))))
    @@ ("amount_type" :> Str(<<"currency">>))
    @@ ("context" :> Str(<<>>))
    @@ ("confidence" :> Num(9, 10))

AmountEntityAt(piece, start, stop) ==
    AmountEntityFrom(piece, start, stop, SkipBlanks(piece.chars, stop),
                     ScaleAt(piece.chars, SkipBlanks(piece.chars, stop)))

AmountEntity(piece) ==
    AmountEntityAt(piece, SkipBlanks(piece.chars, 1),
                   NumberEnd(piece.chars, SkipBlanks(piece.chars, 1)))

\* does float(Decimal(...)) read the string: digits with separators and at
\* most one point; _parse_number gives Decimal(0) for any other string
IsNumeral(chars) ==
    /\ \E i \in 1..Len(chars) : IsDigit(chars[i])
    /\ \A i \in 1..Len(chars) : IsDigit(chars[i]) \/ chars[i] \in {",", "."}
    /\ Cardinality({i \in 1..Len(chars) : chars[i] = "."}) <= 1

\* lines 119-120: a string amount is parsed, any other amount is kept
AmountOf(amount) ==
    IF amount.kind = "str"
    THEN (IF IsNumeral(amount.s) THEN _parse_number(amount.s) ELSE Num(0, 1))
    ELSE amount

\* lines 122-126: multiplier.lower() raises AttributeError unless the
\* multiplier is a string, amount * mult_value raises TypeError for None
\* (the amounts of the model are strings, numbers or None)
TimesMultiplier(amount, multiplier) ==
    IF ~ Truthy(multiplier) THEN [exc |-> FALSE, v |-> amount]
    ELSE IF multiplier.kind # "str" \/ amount.kind # "num" THEN [exc |-> TRUE, v |-> Null]
    ELSE [exc |-> FALSE, v |-> Scaled(amount, MULTIPLIERS(multiplier.s))]

_normalize_amount(item) ==
    TimesMultiplier(AmountOf(Get(item, "amount", Num(0, 1))),
                    Get(item, "multiplier", Str(<<>>)))

\* lines 72-74 for one item of the parsed list.  `in` raises TypeError on a
\* number or None; on a string it is a substring test, which the strings
\* of the model fail.
AmountItem(item) ==
    IF ~ IsObject(item)
    THEN (IF item["$item"].kind = "str" THEN [exc |-> FALSE, v |-> item]
          ELSE [exc |-> TRUE, v |-> item])
    ELSE IF "normalized_value" \notin DOMAIN item /\ "amount" \in DOMAIN item
    THEN [exc |-> _normalize_amount(item).exc,
          v |-> ("normalized_value" :> _normalize_amount(item).v) @@ item]
    ELSE [exc |-> FALSE, v |-> item]

\* lines 71-74 over the parsed list
AmountItems(parsed) ==
    [exc |-> \E k \in 1..Len(parsed) : AmountItem(parsed[k]).exc,
     entities |-> [k \in 1..Len(parsed) |-> AmountItem(parsed[k]).v]]

\* the entities taken from the structured part of the response
JsonEntities(worker_type, response) ==
    IF worker_type = "amount" THEN AmountItems(ParsedArray(response))
    ELSE [exc |-> FALSE, entities |-> ParsedArray(response)]

DateEntity(piece) ==
    ("date_string" :> Str(piece.chars)) @@ ("normalized_date" :> piece.norm)
    @@ ("date_type" :> Str(<<"specific">>)) @@ ("context" :> Str(<<>>))
    @@ ("confidence" :> (IF Truthy(piece.norm) THEN Num(8, 10) ELSE Num(5, 10)))

PersonEntity(piece) ==
    ("name" :> Str(piece.name)) @@ ("email" :> Str(piece.chars))
    @@ ("title" :> Null) @@ ("role" :> Null) @@ ("organization" :> Str(piece.org))
    @@ ("relationships" :> List(<<>>)) @@ ("confidence" :> Num(7, 10))

OrgEntity(piece) ==
    ("name" :> Str(piece.chars)) @@ ("type" :> Str(<<"company">>))
    @@ ("aliases" :> List(<<>>)) @@ ("parent_org" :> Null) @@ ("industry" :> Null)
    @@ ("location" :> Null) @@ ("context" :> Str(<<>>)) @@ ("confidence" :> Num(8, 10))

RECURSIVE TextOf(_)
\* the characters of a text, piece by piece
TextOf(response) ==
    IF response = <<>> THEN <<>>
    ELSE <<Head(response).kind, Head(response).symbol>> \o Head(response).chars
         \o TextOf(Tail(response))

\* GeneralWorker.parse_response
GeneralEntity(response) ==
    ("type" :> Str(<<"general_response">>)) @@ ("content" :> Str(TextOf(response)))
    @@ ("confidence" :> Num(8, 10))

\* the entity a handler makes of a match of its pattern
PatternEntity(worker_type, piece) ==
    CASE worker_type = "date"   -> DateEntity(piece)
      [] worker_type = "person" -> PersonEntity(piece)
      [] worker_type = "org"    -> OrgEntity(piece)
      [] OTHER                  -> AmountEntity(piece)

\* the test `if not any(...)` before the append: "found", "none" or "raised"
Seen(worker_type, entities, piece) ==
    CASE worker_type = "date" ->
            AnyEquals(entities, "date_string", Str(piece.chars), 1)
      [] worker_type = "person" ->
            AnyEquals(entities, "email", Str(piece.chars), 1)
      [] worker_type = "org" -> AnyNamed(entities, piece.chars, 1)
      [] OTHER ->
            AnyEquals(entities, "amount_string", AmountEntity(piece)["amount_string"], 1)

\* does the piece hold a match of the p-th pattern of the handler's loop
MatchedBy(worker_type, p, piece) ==
    CASE worker_type = "date"   -> piece.kind = "date" /\ piece.pattern = p
      [] worker_type = "person" -> piece.kind = "email"
      [] worker_type = "org"    -> piece.kind = "org"
      [] OTHER -> AmountMatches(piece) /\ piece.symbol = CURRENCY_SYMBOLS[p]

\* how many patterns the loop of the handler goes through
Patterns(worker_type) ==
    CASE worker_type = "date"   -> 5
      [] worker_type = "amount" -> Len(CURRENCY_SYMBOLS)
      [] OTHER                  -> 1

RECURSIVE MatchesFrom(_, _, _)
\* the matches in the order of the loops: pattern by pattern, then by position
MatchesFrom(worker_type, response, p) ==
    IF p > Patterns(worker_type) THEN <<>>
    ELSE SelectSeq(response, LAMBDA piece : MatchedBy(worker_type, p, piece))
         \o MatchesFrom(worker_type, response, p + 1)

RECURSIVE AppendMatches(_, _, _, _)
RECURSIVE AppendStep(_, _, _, _, _)
\* one match: skipped when an entity holds it already, else appended
AppendStep(worker_type, matches, k, entities, seen) ==
    IF seen = "raised" THEN [exc |-> TRUE, entities |-> <<>>]
    ELSE IF seen = "found" THEN AppendMatches(worker_type, matches, k + 1, entities)
    ELSE AppendMatches(worker_type, matches, k + 1,
                       Append(entities, PatternEntity(worker_type, matches[k])))

\* the pattern loops of parse_response over matches[k..]
AppendMatches(worker_type, matches, k, entities) ==
    IF k > Len(matches) THEN [exc |-> FALSE, entities |-> entities]
    ELSE AppendStep(worker_type, matches, k, entities,
                    Seen(worker_type, entities, matches[k]))

AfterJson(worker_type, response, json) ==
    IF json.exc THEN [exc |-> TRUE, entities |-> <<>>]
    ELSE AppendMatches(worker_type, MatchesFrom(worker_type, response, 1), 1, json.entities)

\* parse_response of the handler of worker_type: exc or the entities
parse_response(worker_type, response) ==
    IF worker_type = "general"
    THEN [exc |-> FALSE, entities |-> <<GeneralEntity(response)>>]
    ELSE AfterJson(worker_type, response, JsonEntities(worker_type, response))

(***************************************************************************)
(* The prompts.  Without a backend _generate returns the prompt, so the    *)
(* response parse_response reads is the system prompt, the extraction      *)
(* prompt and in it the text.                                              *)
(***************************************************************************)
IsoDate == <<"2", "0", "2", "4", "-", "0", "1", "-", "1", "5">>

\* the examples and the field list of get_system_prompt
SystemPrompt(worker_type) ==
    CASE worker_type = "date" ->
            <<Plain,
              DateText(3, <<"J", "a", "n", "u", "a", "r", "y", " ", "1", "5", ",", " ",
                            "2", "0", "2", "4">>, Str(IsoDate)),
              DateText(2, IsoDate, Str(IsoDate)),
              DateText(1, <<"0", "1", "/", "1", "5", "/", "2", "4">>, Str(IsoDate)),
              Plain>>
      [] worker_type = "org" ->
            <<Plain, OrgText(<<"A", "p", "p", "l", "e", " ", "I", "n", "c">>), Plain>>
      [] worker_type = "amount" ->
            <<Plain,
              AmountText("USD", <<"1", ".", "5", " ", "m", "i", "l", "l", "i", "o", "n">>),
              AmountText("EUR", <<"5", "0", "0", ",", "0", "0", "0">>),
              Plain,
              AmountText("USD", <<"1", "0", "-", "1", "5", " ", "m", "i", "l", "l", "i",
                                  "o", "n">>),
              Plain>>
      [] worker_type = "general" -> <<Plain, Hedge, Plain>>
      [] OTHER -> <<Plain>>

\* what get_extraction_prompt puts behind the text: the field list, with a
\* bracketed list of choices that is not JSON
PromptFields(worker_type) ==
    IF worker_type \in {"date", "org", "amount"}
    THEN <<Plain, Bracketed(FALSE, <<>>), Plain>>
    ELSE IF worker_type = "person" THEN <<Plain>>
    ELSE <<>>

\* the text as it stands in the extraction prompt: the two line ends behind
\* it are blanks to the amount pattern when the text ends in an amount
InPrompt(text) ==
    IF text # <<>> /\ text[Len(text)].kind = "amount"
    THEN [text EXCEPT ![Len(text)].chars = @ \o <<" ", " ">>]
    ELSE text

\* full_prompt of extract, line 71
FullPrompt(worker_type, text) ==
    SystemPrompt(worker_type) \o <<Plain>> \o InPrompt(text) \o PromptFields(worker_type)

(***************************************************************************)
(* QueryRouter.route.  QueryType and WorkerType members are both written   *)
(* by their value ("date", "person", "org", "amount", "general", "multi"). *)
(* force is [given, types]: given = FALSE is force_types=None.             *)
(***************************************************************************)
\* initialize(): the keys of self.workers
Workers == {"date", "person", "org", "amount", "general"}

\* type_mapping.get(t, WorkerType.GENERAL)
type_mapping(t) ==
    IF t \in {"date", "person", "org", "amount", "general"} THEN t ELSE "general"

RECURSIVE Relevant(_, _)
\* [t for t, s in all_types[k..] if s >= 0.2 and t != QueryType.GENERAL]
Relevant(all_types, k) ==
    IF k > Len(all_types) THEN <<>>
    ELSE (IF all_types[k].score >= RELEVANT_SCORE /\ all_types[k].type # "general"
          THEN <<all_types[k].type>> ELSE <<>>) \o Relevant(all_types, k + 1)

\* lines 66-67
OrGeneral(target_types) == IF target_types = <<>> THEN <<"general">> ELSE target_types

\* lines 59-76: `if force_types:` is false for None and for an empty list
TargetTypes(force, classification) ==
    IF force.types # <<>>
    THEN force.types
    ELSE IF classification.primary_type = "multi"
         THEN OrGeneral(Relevant(classification.all_types, 1))
         ELSE <<type_mapping(classification.primary_type)>>

\* lines 78-90
MappedTypes(target_types) ==
    [k \in 1..Len(target_types) |-> type_mapping(target_types[k])]

RECURSIVE TasksFrom(_, _)
\* lines 92-95: one task per worker type that has a worker
TasksFrom(worker_types, k) ==
    IF k > Len(worker_types) THEN <<>>
    ELSE (IF worker_types[k] \in Workers
          THEN <<[worker_type |-> worker_types[k], state |-> "running",
                  result |-> NoExtraction]>>
          ELSE <<>>) \o TasksFrom(worker_types, k + 1)

\* Variant of the barrier that lets go at the first finished task.
SomeSettled(tasks) ==
    tasks = <<>> \/ \E k \in 1..Len(tasks) : tasks[k].state # "running"

\* asyncio.gather(*tasks, return_exceptions=True) has every result
AllSettled(tasks) == \A k \in 1..Len(tasks) : tasks[k].state # "running"

\* results[key] = value on an insertion-ordered dict
DictPut(results, key, value) ==
    IF \E k \in 1..Len(results) : results[k].key = key
    THEN [k \in 1..Len(results) |->
            IF results[k].key = key THEN [key |-> key, value |-> value] ELSE results[k]]
    ELSE Append(results, [key |-> key, value |-> value])

\* Variant in which one exception voids the results of the other tasks.
KeptWhileNoneFailed(worker_types, tasks, k, results) ==
    IF \E j \in 1..Len(tasks) : tasks[j].state = "raised" THEN results
    ELSE DictPut(results, worker_types[k], tasks[k].result)

\* lines 101-104: the result of the k-th task is kept unless it is an exception
Kept(worker_types, tasks, k, results) ==
    IF tasks[k].state = "raised" THEN results
    ELSE DictPut(results, worker_types[k], tasks[k].result)

RECURSIVE ResultsFrom(_, _, _, _)
\* lines 99-104: zip(worker_types, results_list) from position k on
ResultsFrom(worker_types, tasks, k, results) ==
    IF k > Len(worker_types) \/ k > Len(tasks) THEN results
    ELSE ResultsFrom(worker_types, tasks, k + 1, Kept(worker_types, tasks, k, results))

\* Variant in which the entity's own keys win over the annotations.
AnnotatedUnlessPresent(entity, worker_type, confidence) ==
    entity @@ ("_source_worker" :> Tag(worker_type))
           @@ ("_extraction_confidence" :> confidence)

\* lines 127-131: {**entity, '_source_worker': ..., '_extraction_confidence': ...}
Annotated(entity, worker_type, confidence) ==
    ("_source_worker" :> Tag(worker_type)) @@ ("_extraction_confidence" :> confidence)
        @@ entity

AnnotatedAll(worker_type, result) ==
    [k \in 1..Len(result.entities) |->
        Annotated(result.entities[k], worker_type, result.confidence)]

RECURSIVE CombineFrom(_, _)
CombineFrom(results, k) ==
    IF k > Len(results) THEN <<>>
    ELSE AnnotatedAll(results[k].key, results[k].value) \o CombineFrom(results, k + 1)

_combine_entities(results) == CombineFrom(results, 1)

\* lines 109-116: the RoutingResult
RoutingResult(classification, worker_types, results) ==
    [classification |-> classification,
     results |-> results,
     combined_entities |-> _combine_entities(results),
     workers_used |-> worker_types]

(***************************************************************************)
(* Entities the merger is run on: tagged by every handler, untagged, with  *)
(* null fields, with equal and with nearly equal contents.                 *)
(***************************************************************************)
PersonFull ==
    ("_source_worker" :> Tag("person")) @@ ("name" :> Str(<<"A", " ", "b">>))
    @@ ("email" :> Str(<<"x">>)) @@ ("confidence" :> Num(7, 10))

PersonName ==
    ("_source_worker" :> Tag("person")) @@ ("name" :> Str(<<"a", " ", "b">>))
    @@ ("confidence" :> Num(9, 10))

PersonOther ==
    ("_source_worker" :> Tag("person")) @@ ("name" :> Str(<<"b">>))
    @@ ("email" :> Str(<<"y">>)) @@ ("confidence" :> Num(7, 10))

PersonNullEmail ==
    ("_source_worker" :> Tag("person")) @@ ("name" :> Str(<<"a", " ", "b">>))
    @@ ("email" :> Null) @@ ("confidence" :> Num(8, 10))

AmountHundred ==
    ("_source_worker" :> Tag("amount")) @@ ("normalized_value" :> Num(100, 1))
    @@ ("confidence" :> Num(9, 10))

AmountHundredOne ==
    ("_source_worker" :> Tag("amount")) @@ ("normalized_value" :> Num(101, 1))
    @@ ("confidence" :> Num(8, 10))

AmountZero ==
    ("_source_worker" :> Tag("amount")) @@ ("normalized_value" :> Num(0, 1))
    @@ ("confidence" :> Num(9, 10))

DateIso ==
    ("_source_worker" :> Tag("date")) @@ ("normalized_date" :> Str(<<"d">>))
    @@ ("confidence" :> Num(8, 10))

DateUnparsed ==
    ("_source_worker" :> Tag("date")) @@ ("normalized_date" :> Null)
    @@ ("confidence" :> Num(5, 10))

OrgCo ==
    ("_source_worker" :> Tag("org")) @@ ("name" :> Str(<<"a", " ", "c", "o">>))
    @@ ("confidence" :> Num(8, 10))

OrgPlain ==
    ("_source_worker" :> Tag("org")) @@ ("name" :> Str(<<"a", " ", "b">>))
    @@ ("confidence" :> Num(8, 10))

GeneralText ==
    ("_source_worker" :> Tag("general")) @@ ("value" :> Str(<<"a", " ", "b">>))
    @@ ("confidence" :> Num(8, 10))

Untagged ==
    ("name" :> Str(<<"a", " ", "b">>)) @@ ("confidence" :> Num(9, 10))

UntaggedNullConfidence ==
    ("name" :> Str(<<"a", " ", "b">>)) @@ ("confidence" :> Null)

MergeCatalog ==
    { PersonFull, PersonName, PersonOther, PersonNullEmail, AmountHundred,
      AmountHundredOne, AmountZero, DateIso, DateUnparsed, OrgCo, OrgPlain,
      GeneralText, Untagged, UntaggedNullConfidence }

ListsOver(items, maxLen) == UNION {[1..k -> items] : k \in 0..maxLen}

(***************************************************************************)
(* Inputs of the validator: the entity lists it is called with and what    *)
(* the oracle may answer.                                                  *)
(***************************************************************************)
PersonTagged ==
    ("_source_worker" :> Tag("person")) @@ ("_extraction_confidence" :> Num(6, 10))
    @@ ("name" :> Str(<<"a", " ", "b">>)) @@ ("confidence" :> Num(7, 10))

ValidateCatalog ==
    {PersonTagged, DateIso, OrgCo, AmountHundred, GeneralText, Untagged}

MergedByOracle ==
    ("name" :> Str(<<"a", " ", "b">>)) @@ ("confidence" :> Num(1, 1))

\* entries of duplicates_to_merge
ScalarInstruction ==
    [kind |-> "scalar", indices |-> <<>>, has_merged |-> FALSE, merged_entity |-> <<>>]

MergeInstruction(indices) ==
    [kind |-> "object", indices |-> indices, has_merged |-> TRUE,
     merged_entity |-> MergedByOracle]

InstructionWithoutEntity ==
    [kind |-> "object", indices |-> <<0>>, has_merged |-> FALSE, merged_entity |-> <<>>]

InstructionCatalog ==
    { ScalarInstruction, InstructionWithoutEntity, MergeInstruction(<<0>>),
      MergeInstruction(<<0, 1>>), MergeInstruction(<<7>>),
      MergeInstruction(<<0, -7>>) }

OracleStatuses == {"valid", "invalid", "needs_review", "merged", "unknown"}

NoData ==
    [has_status |-> FALSE, status |-> "valid", has_validated |-> FALSE,
     validated_entities |-> <<>>, duplicates_to_merge |-> <<>>,
     has_confidence |-> FALSE, confidence |-> Num(8, 10),
     corrections |-> <<>>, graph_operations |-> <<>>]

\* the objects the oracle may return
OracleData ==
    { [has_status |-> hs, status |-> st, has_validated |-> hv,
       validated_entities |-> ve, duplicates_to_merge |-> dm,
       has_confidence |-> hc, confidence |-> IF hc THEN Num(9, 10) ELSE Num(8, 10),
       corrections |-> IF hc THEN <<1>> ELSE <<>>,
       graph_operations |-> IF hc THEN <<1, 2>> ELSE <<>>] :
      hs \in BOOLEAN, st \in OracleStatuses, hv \in BOOLEAN,
      ve \in {<<>>, <<Untagged>>}, hc \in BOOLEAN,
      dm \in ListsOver(InstructionCatalog, MaxInstructions) }

OracleFailures ==
    {"transport_error", "timeout", "http_error", "bad_envelope", "no_object", "bad_json"}

NoOracle == [kind |-> "none", data |-> NoData]

OracleOutcomes ==
    {[kind |-> k, data |-> NoData] : k \in OracleFailures}
    \cup {[kind |-> "object", data |-> d] :
            d \in {x \in OracleData : /\ (~ x.has_status => x.status = "valid")
                                      /\ (~ x.has_validated => x.validated_entities = <<>>)}}

(***************************************************************************)
(* routes_extraction.py: the per-category endpoints and QueryRouter.classify*)
(* as /extract/smart uses it.                                              *)
(***************************************************************************)
\* a or b
Or(a, b) == IF Truthy(a) THEN a ELSE b

\* the "value" of an endpoint entity
EndpointValue(worker_type, e) ==
    CASE worker_type = "date"   -> Or(GetOrNone(e, "date_string"), GetOrNone(e, "value"))
      [] worker_type = "amount" -> Or(GetOrNone(e, "value"), GetOrNone(e, "amount"))
      [] OTHER                  -> GetOrNone(e, "name")

\* the rendering of the "metadata" dict of an endpoint entity
EndpointMetadata(worker_type, e) ==
    CASE worker_type = "date" ->
            <<"format">> \o ReprVal(GetOrNone(e, "date_type"))
            \o <<"normalized">> \o ReprVal(GetOrNone(e, "normalized_date"))
            \o <<"context">> \o ReprVal(GetOrNone(e, "context"))
      [] worker_type = "person" ->
            <<"email">> \o ReprVal(GetOrNone(e, "email"))
            \o <<"title">> \o ReprVal(GetOrNone(e, "title"))
            \o <<"role">> \o ReprVal(GetOrNone(e, "role"))
            \o <<"organization">> \o ReprVal(GetOrNone(e, "organization"))
            \o <<"relationships">> \o ReprVal(Get(e, "relationships", List(<<>>)))
      [] worker_type = "org" ->
            <<"type">> \o ReprVal(GetOrNone(e, "type"))
            \o <<"industry">> \o ReprVal(GetOrNone(e, "industry"))
            \o <<"aliases">> \o ReprVal(Get(e, "aliases", List(<<>>)))
            \o <<"relationships">> \o ReprVal(Get(e, "relationships", List(<<>>)))
      [] OTHER ->
            <<"currency">> \o ReprVal(GetOrNone(e, "currency"))
            \o <<"normalized">> \o ReprVal(GetOrNone(e, "normalized"))
            \o <<"context">> \o ReprVal(GetOrNone(e, "context"))
            \o <<"unit">> \o ReprVal(GetOrNone(e, "unit"))

\* the dict extract_date, extract_person, extract_org and extract_amount
\* build for an entity of their worker
EndpointEntity(worker_type, e) ==
    ("type" :> Tag(IF worker_type = "org" THEN "organization" ELSE worker_type))
    @@ ("value" :> EndpointValue(worker_type, e))
    @@ ("confidence" :> Get(e, "confidence", Num(8, 10)))
    @@ ("source" :> Tag(worker_type))
    @@ ("metadata" :> Dict(EndpointMetadata(worker_type, e)))

\* a per-category endpoint: its ExtractionResponse, or exc for HTTPException
EndpointResponse(worker_type, outcome) ==
    [exc |-> outcome.exc,
     entities |-> IF outcome.exc THEN <<>>
                  ELSE [k \in 1..Len(outcome.result.entities) |->
                          EndpointEntity(worker_type, outcome.result.entities[k])]]

\* Variant that returns the selection as it is, empty or not.
OrNothing(worker_types) == worker_types

\* Variant with the fallback of route: the general handler.
OrGeneralInstead(worker_types) ==
    IF worker_types = <<>> THEN <<"general">> ELSE worker_types

\* QueryRouter.classify, lines 160-161
OrAllFour(worker_types) ==
    IF worker_types = <<>> THEN <<"date", "person", "org", "amount">> ELSE worker_types

\* QueryRouter.classify: the dict it returns
RouterClassify(classification) ==
    [primary_type |-> classification.primary_type,
     confidence |-> classification.confidence,
     worker_types |-> OrAllFour(Relevant(classification.all_types, 1)),
     scores |-> classification.all_types]

RECURSIVE AllEntitiesFrom(_, _)
\* all_entities: the entities of the tasks from position k on that did not fail
AllEntitiesFrom(tasks, k) ==
    IF k > Len(tasks) THEN <<>>
    ELSE (IF tasks[k].state = "raised" THEN <<>> ELSE tasks[k].entities)
         \o AllEntitiesFrom(tasks, k + 1)

RECURSIVE WorkersUsedFrom(_, _)
\* extract_smart: workers_used
WorkersUsedFrom(tasks, k) ==
    IF k > Len(tasks) THEN <<>>
    ELSE (IF tasks[k].state = "raised" THEN <<>> ELSE <<tasks[k].worker_type>>)
         \o WorkersUsedFrom(tasks, k + 1)

\* the answer of an endpoint: 200 with its entities or 500
EndpointAnswer(exc, entities, workers_used) ==
    [status |-> IF exc THEN 500 ELSE 200,
     entities |-> IF exc THEN <<>> ELSE entities,
     workers_used |-> IF exc THEN <<>> ELSE workers_used]

(***************************************************************************)
(* What the handlers answer: the entities parse_response returns, before   *)
(* the router annotates them, and whether the response text is hedged.     *)
(***************************************************************************)
FoundPerson ==
    ("name" :> Str(<<"a", " ", "b">>)) @@ ("confidence" :> Num(9, 10))

FoundPersonFull ==
    ("name" :> Str(<<"A", " ", "b">>)) @@ ("email" :> Str(<<"x">>))
    @@ ("confidence" :> Num(7, 10))

FoundPersonNullEmail ==
    ("name" :> Str(<<"a", " ", "b">>)) @@ ("email" :> Null)
    @@ ("confidence" :> Num(8, 10))

FoundDate ==
    ("normalized_date" :> Str(<<"d">>)) @@ ("confidence" :> Num(8, 10))

\* a structured object of the text that carries a `_source_worker` key itself
FoundDateMistagged ==
    ("normalized_date" :> Str(<<"d">>)) @@ ("confidence" :> Num(8, 10))
    @@ ("_source_worker" :> Tag("org"))

FoundOrg ==
    ("name" :> Str(<<"a", " ", "c", "o">>)) @@ ("confidence" :> Num(8, 10))

FoundOrgNullConfidence ==
    ("name" :> Str(<<"a", " ", "b">>)) @@ ("confidence" :> Null)

FoundAmount ==
    ("normalized_value" :> Num(100, 1)) @@ ("confidence" :> Num(9, 10))

FoundAmountNear ==
    ("normalized_value" :> Num(101, 1)) @@ ("confidence" :> Num(8, 10))

\* GeneralWorker.parse_response: always one general_response entity
FoundGeneral ==
    ("type" :> Str(<<"g">>)) @@ ("content" :> Str(<<"q">>))
    @@ ("confidence" :> Num(8, 10))

Response(entities, hedged) == [entities |-> entities, hedged |-> hedged]

Responses(worker_type) ==
    CASE worker_type = "person" ->
            { Response(<<FoundPerson, FoundPersonFull>>, FALSE),
              Response(<<FoundPersonNullEmail, FoundPerson>>, TRUE) }
      [] worker_type = "date" ->
            { Response(<<>>, FALSE), Response(<<FoundDateMistagged, FoundDate>>, FALSE) }
      [] worker_type = "org" ->
            { Response(<<FoundOrg>>, TRUE),
              Response(<<FoundOrgNullConfidence, FoundOrg>>, FALSE),
              Response(<<FoundOrgNullConfidence, FoundOrgNullConfidence>>, FALSE) }
      [] worker_type = "amount" ->
            { Response(<<FoundAmount, FoundAmountNear>>, FALSE),
              Response(<<FoundAmount>>, TRUE) }
      [] OTHER ->
            { Response(<<FoundGeneral>>, TRUE) }

(***************************************************************************)
(* The queries and the force_types arguments route is called with.         *)
(***************************************************************************)
Signals(query) ==
    query.date_kw + query.person_kw + query.org_kw + query.amount_kw
        + query.date_pat + query.amount_pat + query.emails

Queries ==
    {query \in [date_kw : 0..MaxSignals, person_kw : 0..MaxSignals,
                org_kw : 0..MaxSignals, amount_kw : 0..MaxSignals,
                date_pat : 0..MaxSignals, amount_pat : 0..MaxSignals,
                emails : 0..MaxSignals] : Signals(query) <= MaxSignals}

PlainQuery ==
    [date_kw |-> 0, person_kw |-> 0, org_kw |-> 0, amount_kw |-> 0,
     date_pat |-> 0, amount_pat |-> 0, emails |-> 0]

\* a text with one date and one amount
DatedAmountQuery == [PlainQuery EXCEPT !.date_pat = 1, !.amount_pat = 1]

\* what the oracle answers in a run of the whole pipeline
PipelineOracles ==
    {oracle \in OracleOutcomes :
        \/ oracle.kind \in OracleFailures
        \/ /\ ~ oracle.data.has_status
           /\ ~ oracle.data.has_validated
           /\ ~ oracle.data.has_confidence
           /\ Len(oracle.data.duplicates_to_merge) <= 1}

\* with force_types the query only feeds the classification that is returned
ForcedQueries == {PlainQuery, DatedAmountQuery}

NotForced == [given |-> FALSE, types |-> <<>>]

Forced(types) == [given |-> TRUE, types |-> types]

\* the non-empty lists of distinct worker types
ForcedLists ==
    {types \in ListsOver(Workers, MaxForced) :
        /\ types # <<>>
        /\ \A i, j \in 1..Len(types) : types[i] = types[j] => i = j}

(***************************************************************************)
(* State.                                                                  *)
(***************************************************************************)
VARIABLES
    m_pc,        \* merger: "off", "input" (list chosen), "returned", "raised"
    m_entities,  \* merger: the list passed to merge_entities
    m_result,    \* merger: what merge_entities produced
    v_pc,        \* validator: "off", "input", "returned", "raised"
    v_config,    \* validator: the constructor arguments [has_api_key, enabled]
    v_entities,  \* validator: the caller's entity list (a mutable list)
    v_supplied,  \* validator: the caller's list as it was at the call
    v_oracle,    \* validator: what the oracle answered to this call
    v_posts,     \* validator: HTTP posts sent to the oracle
    v_result,    \* validator: the ValidationResult returned
    r_pc,        \* router: "off", "idle", "running" (awaiting gather), "returned"
    r_force,     \* router: the force_types argument of the call
    r_classification, \* router: the ClassificationResult of the query
    r_worker_types,   \* router: worker_types, the dispatch list
    r_tasks,     \* router: the tasks given to gather: worker type, state, result
    r_finished,  \* router: positions of the finished tasks, in order of finishing
    r_result,    \* router: the RoutingResult returned
    e_pc,        \* endpoint: "off", "idle", "running" (awaiting gather), "responded"
    e_endpoint,  \* endpoint: "none", "smart" or "all"
    e_classification, \* endpoint: what QueryRouter.classify returned (/extract/smart)
    e_tasks,     \* endpoint: the per-category endpoint calls given to gather
    e_response,  \* endpoint: the answer, with its HTTP status
    p_origin,    \* for each entity of m_entities, the worker type that produced it
    c_pc,        \* classifier: "off", "input", "classified", "selected", "dispatched"
    c_query,     \* classifier: the query
    c_classification, \* classifier: the ClassificationResult of QueryClassifier.classify
    c_router,    \* classifier: the dict of QueryRouter.classify
    c_tasks,     \* classifier: the tasks route creates for the query without force_types
    w_pc,        \* handler: "off", "input", "returned", "raised"
    w_worker,    \* handler: the worker type of the handler
    w_call,      \* handler: "none", "parse_response" or "extract"
    w_backend,   \* handler: is a generative backend attached
    w_text,      \* handler: the text extract is called with
    w_response,  \* handler: the response text given to parse_response
    w_result,    \* handler: [entities, confidence] as returned
    g_pc,        \* manager: "off", "constructed", "initialized", "shutdown"
    g_running,   \* manager: self._running
    g_task_counter, \* manager: self._task_counter
    g_task_queue,   \* manager: self.task_queue, the ids of the queued tasks
    g_tasks,     \* manager: the GenerationTask objects created, by id
    g_taken,     \* manager: for each task, how many times a worker loop dequeued it
    g_workers,   \* manager: self.workers, each worker loop's position and task
    g_callers    \* manager: the calls of generate, in the order made: position,
                 \* task and outcome

mergeVars == <<m_pc, m_entities, m_result>>

routeVars == <<r_pc, r_force, r_classification, r_worker_types, r_tasks, r_finished,
               r_result>>

endpointVars == <<e_pc, e_endpoint, e_classification, e_tasks, e_response, p_origin>>

validateVars == <<v_pc, v_config, v_entities, v_supplied, v_oracle, v_posts, v_result>>

classifyVars == <<c_pc, c_query, c_classification, c_router, c_tasks>>

workerVars == <<w_pc, w_worker, w_call, w_backend, w_text, w_response, w_result>>

managerVars == <<g_pc, g_running, g_task_counter, g_task_queue, g_tasks, g_taken,
                 g_workers, g_callers>>

unitVars == <<classifyVars, workerVars, managerVars>>

vars == <<m_pc, m_entities, m_result,
          v_pc, v_config, v_entities, v_supplied, v_oracle, v_posts, v_result,
          r_pc, r_force, r_classification, r_worker_types, r_tasks, r_finished,
          r_result,
          e_pc, e_endpoint, e_classification, e_tasks, e_response, p_origin,
          c_pc, c_query, c_classification, c_router, c_tasks,
          w_pc, w_worker, w_call, w_backend, w_text, w_response, w_result,
          g_pc, g_running, g_task_counter, g_task_queue, g_tasks, g_taken,
          g_workers, g_callers>>

NoResult == [exc |-> FALSE, out |-> <<>>, nmerged |-> 0, consumed |-> {}]

NoValidation ==
    [status |-> "none", confidence |-> Num(0, 1), entities |-> <<>>,
     corrections |-> <<>>, graph_operations |-> <<>>]

MergeOff == m_pc = "off" /\ m_entities = <<>> /\ m_result = NoResult

ValidateOff ==
    /\ v_pc = "off"
    /\ v_config = [has_api_key |-> FALSE, enabled |-> FALSE]
    /\ v_entities = <<>>
    /\ v_supplied = <<>>
    /\ v_oracle = NoOracle
    /\ v_posts = 0
    /\ v_result = NoValidation

NoClassification == [primary_type |-> "none", all_types |-> <<>>, confidence |-> 0]

NoRouting ==
    [classification |-> NoClassification, results |-> <<>>,
     combined_entities |-> <<>>, workers_used |-> <<>>]

RouteIdle(pc) ==
    /\ r_pc = pc
    /\ r_force = NotForced
    /\ r_classification = NoClassification
    /\ r_worker_types = <<>>
    /\ r_tasks = <<>>
    /\ r_finished = <<>>
    /\ r_result = NoRouting

RouteOff == RouteIdle("off")

NoAnswer == [status |-> 0, entities |-> <<>>, workers_used |-> <<>>]

NoRouterClassify ==
    [primary_type |-> "none", confidence |-> 0, worker_types |-> <<>>, scores |-> <<>>]

EndpointIdle(pc) ==
    /\ e_pc = pc
    /\ e_endpoint = "none"
    /\ e_classification = NoRouterClassify
    /\ e_tasks = <<>>
    /\ e_response = NoAnswer
    /\ p_origin = <<>>

EndpointOff == EndpointIdle("off")

ClassifyIdle(pc) ==
    /\ c_pc = pc
    /\ c_classification = NoClassification
    /\ c_router = NoRouterClassify
    /\ c_tasks = <<>>

ClassifyOff == ClassifyIdle("off") /\ c_query = PlainQuery

NoHandlerResult == [entities |-> <<>>, confidence |-> Num(0, 1)]

WorkerIdle(pc) ==
    /\ w_pc = pc
    /\ w_call = "none"
    /\ w_response = <<>>
    /\ w_result = NoHandlerResult

WorkerOff ==
    WorkerIdle("off") /\ w_worker = "general" /\ w_backend = FALSE /\ w_text = <<>>

ManagerIdle(pc) ==
    /\ g_pc = pc
    /\ g_running = FALSE
    /\ g_task_counter = 0
    /\ g_task_queue = <<>>
    /\ g_tasks = <<>>
    /\ g_taken = <<>>
    /\ g_workers = <<>>

ManagerOff == ManagerIdle("off") /\ g_callers = <<>>

UnitOff == ClassifyOff /\ WorkerOff /\ ManagerOff

(***************************************************************************)
(* SpecMerge: merge_entities applied to every bounded entity list.         *)
(***************************************************************************)
MergeInit ==
    /\ m_pc = "input"
    /\ m_entities \in ListsOver(MergeCatalog, MaxEntities)
    /\ m_result = NoResult

MergeEntities ==
    /\ m_pc = "input"
    /\ m_result' = merge_entities(m_entities)
    /\ m_pc' = IF m_result'.exc THEN "raised" ELSE "returned"
    /\ UNCHANGED m_entities
    /\ UNCHANGED <<validateVars, routeVars, endpointVars, unitVars>>

InitMerge == MergeInit /\ ValidateOff /\ RouteOff /\ EndpointOff /\ UnitOff

NextMerge == MergeEntities

SpecMerge == InitMerge /\ [][NextMerge]_vars

(***************************************************************************)
(* SpecValidate: one call of validate_and_aggregate on every bounded       *)
(* entity list, aggregator configuration and oracle answer.                *)
(***************************************************************************)
\* HaikuAggregator.__init__: self.enabled
AggregatorEnabled(config) == config.enabled /\ config.has_api_key

ValidateInit ==
    /\ v_pc = "input"
    /\ v_config \in [has_api_key : BOOLEAN, enabled : BOOLEAN]
    /\ v_entities \in ListsOver(ValidateCatalog, MaxValidated)
    /\ v_supplied = v_entities
    /\ v_oracle = NoOracle
    /\ v_posts = 0
    /\ v_result = NoValidation

\* the effect of the call once the oracle's answer is fixed
ValidateWith(oracle, out) ==
    /\ v_oracle' = oracle
    /\ v_result' = out.result
    /\ v_entities' = out.caller
    /\ v_pc' = IF out.exc THEN "raised" ELSE "returned"
    /\ UNCHANGED <<v_config, v_supplied>>
    /\ UNCHANGED <<mergeVars, routeVars, endpointVars, unitVars>>

ValidateDisabled ==
    /\ v_pc = "input"
    /\ ~ AggregatorEnabled(v_config)
    /\ v_posts' = v_posts
    /\ ValidateWith(NoOracle, validate_and_aggregate(FALSE, v_entities, NoOracle))

ValidateEnabled ==
    /\ v_pc = "input"
    /\ AggregatorEnabled(v_config)
    /\ v_posts' = v_posts + 1
    /\ \E oracle \in OracleOutcomes :
         ValidateWith(oracle, validate_and_aggregate(TRUE, v_entities, oracle))

InitValidate == ValidateInit /\ MergeOff /\ RouteOff /\ EndpointOff /\ UnitOff

NextValidate == ValidateDisabled \/ ValidateEnabled

SpecValidate == InitValidate /\ [][NextValidate]_vars

(***************************************************************************)
(* SpecRoute: one call of QueryRouter.route.  The handler tasks given to   *)
(* gather finish one at a time, in any order; route goes on when gather    *)
(* has the result or the exception of every task.                          *)
(***************************************************************************)
\* lines 57-95: classify, select, map and create the tasks
Route(query, force) ==
    /\ r_pc = "idle"
    /\ r_force' = force
    /\ r_classification' = classify(query)
    /\ r_worker_types' = MappedTypes(TargetTypes(force, r_classification'))
    /\ r_tasks' = TasksFrom(r_worker_types', 1)
    /\ r_pc' = "running"
    /\ UNCHANGED <<r_finished, r_result>>
    /\ UNCHANGED <<mergeVars, validateVars, endpointVars, unitVars>>

RouteClassified ==
    \E query \in Queries, force \in {NotForced, Forced(<<>>)} : Route(query, force)

RouteForced ==
    \E query \in ForcedQueries, types \in ForcedLists : Route(query, Forced(types))

\* QueryRouter.extract_all
RouterExtractAll ==
    \E query \in ForcedQueries : Route(query, Forced(<<"date", "person", "org", "amount">>))

\* the k-th task of gather finishes with the outcome of extract
Settle(k, outcome) ==
    /\ r_tasks' = [r_tasks EXCEPT ![k] =
                     [worker_type |-> r_tasks[k].worker_type,
                      state |-> IF outcome.exc THEN "raised" ELSE "returned",
                      result |-> outcome.result]]
    /\ r_finished' = Append(r_finished, k)
    /\ UNCHANGED <<r_pc, r_force, r_classification, r_worker_types, r_result>>
    /\ UNCHANGED <<mergeVars, validateVars, endpointVars, unitVars>>

\* _run_worker: worker.extract got a response from its backend
HandlerReturns ==
    \E k \in 1..Len(r_tasks) :
        /\ r_pc = "running"
        /\ r_tasks[k].state = "running"
        /\ \E response \in Responses(r_tasks[k].worker_type) :
             Settle(k, extract(r_tasks[k].worker_type, response))

\* _run_worker: the backend or parse_response raised
HandlerRaises ==
    \E k \in 1..Len(r_tasks) :
        /\ r_pc = "running"
        /\ r_tasks[k].state = "running"
        /\ Settle(k, [exc |-> TRUE, result |-> NoExtraction])

\* lines 97-116: gather has every result; build results, combine, return
RouteReturn ==
    /\ r_pc = "running"
    /\ AllSettled(r_tasks)
    /\ r_result' = RoutingResult(r_classification, r_worker_types,
                                 ResultsFrom(r_worker_types, r_tasks, 1, <<>>))
    /\ r_pc' = "returned"
    /\ UNCHANGED <<r_force, r_classification, r_worker_types, r_tasks, r_finished>>
    /\ UNCHANGED <<mergeVars, validateVars, endpointVars, unitVars>>

InitRoute == RouteIdle("idle") /\ MergeOff /\ ValidateOff /\ EndpointOff /\ UnitOff

NextRoute ==
    \/ RouteClassified
    \/ RouteForced
    \/ RouterExtractAll
    \/ HandlerReturns
    \/ HandlerRaises
    \/ RouteReturn

SpecRoute == InitRoute /\ [][NextRoute]_vars

(***************************************************************************)
(* SpecPipeline: one request through the whole pipeline, either            *)
(* route -> merge_entities -> validate_and_aggregate, or one of the        *)
(* endpoints /extract/smart and /extract/all.                              *)
(***************************************************************************)
RECURSIVE ProducersFrom(_, _, _)
\* for each delivered entity the worker type of its task, tasks k and later
ProducersFrom(worker_types, counts, k) ==
    IF k > Len(worker_types) THEN <<>>
    ELSE [i \in 1..counts[k] |-> worker_types[k]]
         \o ProducersFrom(worker_types, counts, k + 1)

\* merge_entities is given the list
Handed(entities, merged, producers) ==
    /\ m_entities' = entities
    /\ m_result' = merged
    /\ m_pc' = IF merged.exc THEN "raised" ELSE "returned"
    /\ p_origin' = producers

\* validate_and_aggregate was called on the list
Validated(config, entities, oracle, out) ==
    /\ v_config' = config
    /\ v_supplied' = entities
    /\ v_entities' = out.caller
    /\ v_oracle' = oracle
    /\ v_posts' = IF AggregatorEnabled(config) THEN 1 ELSE 0
    /\ v_result' = out.result
    /\ v_pc' = IF out.exc THEN "raised" ELSE "returned"

\* the pipeline hands route's combined_entities to merge_entities
MergeRouted ==
    /\ r_pc = "returned"
    /\ m_pc = "off"
    /\ Handed(r_result.combined_entities, merge_entities(r_result.combined_entities),
              ProducersFrom([k \in 1..Len(r_tasks) |-> r_tasks[k].worker_type],
                            [k \in 1..Len(r_tasks) |->
                                IF r_tasks[k].state = "returned"
                                THEN Len(r_tasks[k].result.entities) ELSE 0], 1))
    /\ UNCHANGED <<e_pc, e_endpoint, e_classification, e_tasks, e_response>>
    /\ UNCHANGED <<routeVars, validateVars, unitVars>>

\* the pipeline hands the merged list to validate_and_aggregate
ValidateMerged ==
    /\ r_pc = "returned"
    /\ m_pc = "returned"
    /\ v_pc = "off"
    /\ \E config \in [has_api_key : BOOLEAN, enabled : BOOLEAN] :
         \E oracle \in (IF AggregatorEnabled(config) THEN PipelineOracles ELSE {NoOracle}) :
            Validated(config, m_result.out, oracle,
                      validate_and_aggregate(AggregatorEnabled(config), m_result.out, oracle))
    /\ UNCHANGED <<mergeVars, routeVars, endpointVars, unitVars>>

RECURSIVE SmartTasksFrom(_, _)
\* extract_smart, lines 232-241: one endpoint call per known worker type
SmartTasksFrom(worker_types, k) ==
    IF k > Len(worker_types) THEN <<>>
    ELSE (IF worker_types[k] \in {"date", "person", "org", "amount"}
          THEN <<[worker_type |-> worker_types[k], state |-> "running", entities |-> <<>>]>>
          ELSE <<>>) \o SmartTasksFrom(worker_types, k + 1)

\* POST /extract/smart up to gather
SmartRequest ==
    /\ e_pc = "idle"
    /\ \E query \in Queries : e_classification' = RouterClassify(classify(query))
    /\ e_tasks' = SmartTasksFrom(e_classification'.worker_types, 1)
    /\ e_endpoint' = "smart"
    /\ e_pc' = "running"
    /\ UNCHANGED <<e_response, p_origin>>
    /\ UNCHANGED <<mergeVars, validateVars, routeVars, unitVars>>

\* POST /extract/all up to gather
AllRequest ==
    /\ e_pc = "idle"
    /\ e_tasks' = SmartTasksFrom(<<"date", "person", "org", "amount">>, 1)
    /\ e_endpoint' = "all"
    /\ e_pc' = "running"
    /\ UNCHANGED <<e_classification, e_response, p_origin>>
    /\ UNCHANGED <<mergeVars, validateVars, routeVars, unitVars>>

\* the k-th per-category endpoint call finishes
EndpointSettle(k, response) ==
    /\ e_tasks' = [e_tasks EXCEPT ![k] =
                     [worker_type |-> e_tasks[k].worker_type,
                      state |-> IF response.exc THEN "raised" ELSE "returned",
                      entities |-> response.entities]]
    /\ UNCHANGED <<e_pc, e_endpoint, e_classification, e_response, p_origin>>
    /\ UNCHANGED <<mergeVars, validateVars, routeVars, unitVars>>

\* extract_date, extract_person, extract_org, extract_amount: worker.extract
\* got a response (its exception becomes HTTPException 500)
EndpointHandlerReturns ==
    \E k \in 1..Len(e_tasks) :
        /\ e_pc = "running"
        /\ e_tasks[k].state = "running"
        /\ \E response \in Responses(e_tasks[k].worker_type) :
             EndpointSettle(k, EndpointResponse(e_tasks[k].worker_type,
                                                extract(e_tasks[k].worker_type, response)))

\* the backend or parse_response raised: HTTPException 500
EndpointHandlerRaises ==
    \E k \in 1..Len(e_tasks) :
        /\ e_pc = "running"
        /\ e_tasks[k].state = "running"
        /\ EndpointSettle(k, [exc |-> TRUE, entities |-> <<>>])

\* the producers of all_entities
EndpointProducers ==
    ProducersFrom([k \in 1..Len(e_tasks) |-> e_tasks[k].worker_type],
                  [k \in 1..Len(e_tasks) |->
                      IF e_tasks[k].state = "raised" THEN 0 ELSE Len(e_tasks[k].entities)], 1)

\* extract_smart, lines 258-265: validate the merged list and answer
SmartValidated(merged, out) ==
    /\ Validated([has_api_key |-> FALSE, enabled |-> TRUE], merged, NoOracle, out)
    /\ e_response' = EndpointAnswer(out.exc, out.result.entities, WorkersUsedFrom(e_tasks, 1))

\* extract_smart, lines 255-268, once merge_entities has run
SmartMerged(all_entities, merged) ==
    /\ Handed(all_entities, merged, EndpointProducers)
    /\ IF merged.exc
       THEN /\ e_response' = EndpointAnswer(TRUE, <<>>, <<>>)
            /\ UNCHANGED validateVars
       ELSE SmartValidated(merged.out, validate_and_aggregate(FALSE, merged.out, NoOracle))

\* POST /extract/smart from gather's return to the answer
SmartRespond ==
    /\ e_pc = "running"
    /\ e_endpoint = "smart"
    /\ \A k \in 1..Len(e_tasks) : e_tasks[k].state # "running"
    /\ SmartMerged(AllEntitiesFrom(e_tasks, 1), merge_entities(AllEntitiesFrom(e_tasks, 1)))
    /\ e_pc' = "responded"
    /\ UNCHANGED <<e_endpoint, e_classification, e_tasks>>
    /\ UNCHANGED <<routeVars, unitVars>>

\* extract_all, lines 215-221, once merge_entities has run
AllMerged(all_entities, merged) ==
    /\ Handed(all_entities, merged, EndpointProducers)
    /\ e_response' = EndpointAnswer(merged.exc, merged.out, <<>>)

\* POST /extract/all from gather's return to the answer
AllRespond ==
    /\ e_pc = "running"
    /\ e_endpoint = "all"
    /\ \A k \in 1..Len(e_tasks) : e_tasks[k].state # "running"
    /\ AllMerged(AllEntitiesFrom(e_tasks, 1), merge_entities(AllEntitiesFrom(e_tasks, 1)))
    /\ e_pc' = "responded"
    /\ UNCHANGED <<e_endpoint, e_classification, e_tasks>>
    /\ UNCHANGED <<validateVars, routeVars, unitVars>>

InitPipeline ==
    /\ MergeOff
    /\ ValidateOff
    /\ UnitOff
    /\ \/ RouteIdle("idle") /\ EndpointOff
       \/ RouteOff /\ EndpointIdle("idle")

NextPipeline ==
    \/ RouteClassified
    \/ RouteForced
    \/ RouterExtractAll
    \/ HandlerReturns
    \/ HandlerRaises
    \/ RouteReturn
    \/ MergeRouted
    \/ ValidateMerged
    \/ SmartRequest
    \/ AllRequest
    \/ EndpointHandlerReturns
    \/ EndpointHandlerRaises
    \/ SmartRespond
    \/ AllRespond

SpecPipeline == InitPipeline /\ [][NextPipeline]_vars

(***************************************************************************)
(* Properties of the merger.                                               *)
(***************************************************************************)
\* the `_merged_from` list of the p-th record of a merge result
MergedFrom(r, p) == r.out[p]["_merged_from"].l

\* the merged records of r that name the 0-based index i
Holders(r, i) == {p \in 1..r.nmerged : i \in Range(MergedFrom(r, p))}

\* the two entities do not carry the same `_source_worker` tag
TagsDiffer(a, b) ==
    \/ ("_source_worker" \in DOMAIN a) # ("_source_worker" \in DOMAIN b)
    \/ /\ "_source_worker" \in DOMAIN a
       /\ "_source_worker" \in DOMAIN b
       /\ a["_source_worker"] # b["_source_worker"]

\* C1: when merge_entities returns, every merged record names two distinct
\* original indices, no index is named by two merged records, the records
\* after the merged ones are exactly the entities of the unnamed indices in
\* their original order, and the output has n minus (number of merges)
\* records.
C1_IndexPartition ==
    m_pc = "returned" =>
        LET n == Len(m_entities)
            r == m_result
            unnamed == {i \in 0..(n - 1) : Holders(r, i) = {}}
            rank(i) == Cardinality({j \in unnamed : j <= i})
        IN /\ r.nmerged <= Len(r.out)
           /\ \A p \in 1..r.nmerged :
                /\ Len(MergedFrom(r, p)) = 2
                /\ MergedFrom(r, p)[1] # MergedFrom(r, p)[2]
                /\ Range(MergedFrom(r, p)) \subseteq 0..(n - 1)
           /\ \A i \in 0..(n - 1) : Cardinality(Holders(r, i)) <= 1
           /\ Len(r.out) - r.nmerged = Cardinality(unnamed)
           /\ \A i \in unnamed : r.out[r.nmerged + rank(i)] = m_entities[i + 1]
           /\ Len(r.out) = n - r.nmerged

\* C1 witness: three entities that are pairwise candidates, of which one
\* pair was merged and the third entity passed through.
C1_Witness ==
    /\ m_pc = "returned"
    /\ Len(m_entities) = 3
    /\ Len(find_duplicates(m_entities).cands) = 3
    /\ m_result.nmerged = 1
    /\ Len(m_result.out) = 2

\* C2: two entities whose `_source_worker` tags differ have similarity
\* exactly 0, and merge_entities never names both in one merged record.
C2_CrossTypeNeverMerged ==
    \A i \in 1..Len(m_entities) : \A j \in (i + 1)..Len(m_entities) :
        TagsDiffer(m_entities[i], m_entities[j]) =>
            /\ ~ _calculate_similarity(m_entities[i], m_entities[j]).exc
            /\ _calculate_similarity(m_entities[i], m_entities[j]).n = 0
            /\ m_pc = "returned" =>
                 \A p \in 1..m_result.nmerged :
                     ~ ({i - 1, j - 1} \subseteq Range(MergedFrom(m_result, p)))

\* C2 witness: a person and an untagged entity with the same name were
\* given to merge_entities together with a duplicate that was merged.
C2_Witness ==
    /\ m_pc = "returned"
    /\ m_result.nmerged = 1
    /\ \E i, j \in 1..Len(m_entities) :
         /\ m_entities[i] = PersonName
         /\ m_entities[j] = Untagged

(***************************************************************************)
(* Properties of the validator.                                            *)
(***************************************************************************)
\* the oracle's answer to the call could not be obtained, parsed or applied
OracleUnusable ==
    \/ v_oracle.kind \in OracleFailures
    \/ /\ v_oracle.kind = "object"
       /\ ApplyInstructions(IF v_oracle.data.has_validated
                            THEN v_oracle.data.validated_entities ELSE v_supplied,
                            v_oracle.data.duplicates_to_merge, 1).exc

\* C4: with validation enabled, when the oracle call fails or its answer
\* cannot be parsed or applied, validate_and_aggregate raises nothing and
\* returns the passthrough result of the entity list the caller supplied.
C4_FallbackIsPassthroughOfSupplied ==
    (v_pc \in {"returned", "raised"} /\ AggregatorEnabled(v_config) /\ OracleUnusable)
        => /\ v_pc = "returned"
           /\ v_result = _passthrough_validation(v_supplied)

\* the label the fixed category map gives an entity
LabelByTag(entity) ==
    IF "_source_worker" \notin DOMAIN entity THEN "Entity"
    ELSE IF entity["_source_worker"].s = <<"date">> THEN "Date"
    ELSE IF entity["_source_worker"].s = <<"person">> THEN "Person"
    ELSE IF entity["_source_worker"].s = <<"org">> THEN "Organization"
    ELSE IF entity["_source_worker"].s = <<"amount">> THEN "Amount"
    ELSE "Entity"

\* C6: with the oracle disabled (no API key or enabled=False) the call
\* sends nothing to the oracle and returns status valid, confidence 0.7, no
\* corrections, the caller's entities unchanged and in order, and one
\* CREATE_NODE per entity, in entity order, labelled by the fixed map and
\* carrying the entity's attributes without the underscore-prefixed keys.
C6_DisabledPassthrough ==
    (v_pc # "input" /\ v_pc # "off"
        /\ (~ v_config.has_api_key \/ ~ v_config.enabled))
        => /\ v_pc = "returned"
           /\ v_posts = 0
           /\ v_result.status = "valid"
           /\ v_result.confidence = Num(7, 10)
           /\ v_result.corrections = <<>>
           /\ v_result.entities = v_supplied
           /\ v_entities = v_supplied
           /\ Len(v_result.graph_operations) = Len(v_supplied)
           /\ \A i \in 1..Len(v_supplied) :
                /\ v_result.graph_operations[i].operation = "CREATE_NODE"
                /\ v_result.graph_operations[i].label = LabelByTag(v_supplied[i])
                /\ DOMAIN v_result.graph_operations[i].properties
                     = DOMAIN v_supplied[i] \ {"_source_worker", "_extraction_confidence"}
                /\ \A k \in DOMAIN v_result.graph_operations[i].properties :
                     v_result.graph_operations[i].properties[k] = v_supplied[i][k]

\* C6 witness: a disabled aggregator that holds an API key returned for a
\* tagged person followed by a tagged organization.
C6_Witness ==
    /\ v_pc = "returned"
    /\ v_config = [has_api_key |-> TRUE, enabled |-> FALSE]
    /\ v_supplied = <<PersonTagged, OrgCo>>
    /\ Len(v_result.graph_operations) = 2

(***************************************************************************)
(* Properties of the router.                                               *)
(***************************************************************************)
\* positions of the tasks that returned an ExtractionResult
Completed == {k \in 1..Len(r_tasks) : r_tasks[k].state = "returned"}

\* an entity without the two annotations of the router
Bare(entity) ==
    [key \in DOMAIN entity \ {"_source_worker", "_extraction_confidence"} |-> entity[key]]

RECURSIVE EntitiesBefore(_, _)
\* how many entities the completed tasks in front of position k returned
EntitiesBefore(tasks, k) ==
    IF k <= 1 THEN 0
    ELSE EntitiesBefore(tasks, k - 1)
         + (IF tasks[k - 1].state = "returned" THEN Len(tasks[k - 1].result.entities) ELSE 0)

\* the combined entities that carry the tag of a worker type, in order
TaggedBy(combined, worker_type) ==
    SelectSeq(combined, LAMBDA e : e["_source_worker"] = Tag(worker_type))

\* C3: a handler that raises changes neither the request nor its sibling
\* tasks, and when route returns every task has finished by itself, the
\* results hold exactly the ExtractionResult of each handler that completed
\* and combined_entities holds exactly their entities, each under the tag
\* of the handler that produced it.
C3_FanOutIsolation ==
    /\ [][\A k \in 1..Len(r_tasks) :
            (r_tasks[k].state = "running" /\ r_tasks'[k].state = "raised")
                => /\ r_pc' = r_pc
                   /\ \A j \in 1..Len(r_tasks) : j # k => r_tasks'[j] = r_tasks[j]]_vars
    /\ [](r_pc = "returned" =>
            /\ \A k \in 1..Len(r_tasks) : r_tasks[k].state \in {"returned", "raised"}
            /\ Len(r_result.results) = Cardinality(Completed)
            /\ \A k \in Completed :
                 /\ \E i \in 1..Len(r_result.results) :
                      /\ r_result.results[i].key = r_tasks[k].worker_type
                      /\ r_result.results[i].value = r_tasks[k].result
                 /\ Len(TaggedBy(r_result.combined_entities, r_tasks[k].worker_type))
                        = Len(r_tasks[k].result.entities)
                 /\ \A i \in 1..Len(r_tasks[k].result.entities) :
                      Bare(TaggedBy(r_result.combined_entities, r_tasks[k].worker_type)[i])
                        = Bare(r_tasks[k].result.entities[i])
            /\ \A p \in 1..Len(r_result.combined_entities) :
                 \E k \in Completed :
                     r_result.combined_entities[p]["_source_worker"]
                        = Tag(r_tasks[k].worker_type))

\* C3 witness: of two dispatched handlers the one that finished first raised,
\* the other completed afterwards and its entities were returned.
C3_Witness ==
    /\ r_pc = "returned"
    /\ Len(r_tasks) = 2
    /\ r_tasks[r_finished[1]].state = "raised"
    /\ r_tasks[r_finished[2]].state = "returned"
    /\ Len(r_result.results) = 1
    /\ r_result.combined_entities # <<>>

\* C7: route dispatches to exactly the categories of force_types whenever
\* force_types is supplied; otherwise, for a MULTI classification, to every
\* non-General category scoring at least 0.2 (General alone if there is
\* none); otherwise to the handler of the primary category.  The handlers
\* invoked and workers_used both equal that selection.
C7_SelectionRule ==
    r_pc \in {"running", "returned"} =>
        LET scores == r_classification.all_types
            relevant == {scores[k].type : k \in {j \in 1..Len(scores) :
                            scores[j].score >= 20 /\ scores[j].type # "general"}}
            selection == IF r_force.given THEN Range(r_force.types)
                         ELSE IF r_classification.primary_type = "multi"
                              THEN (IF relevant = {} THEN {"general"} ELSE relevant)
                              ELSE {r_classification.primary_type}
        IN /\ {r_tasks[k].worker_type : k \in 1..Len(r_tasks)} = selection
           /\ r_pc = "returned" => Range(r_result.workers_used) = selection

\* C8: whatever the order in which the handlers finished, combined_entities
\* lists the entities of the completed handlers category by category in
\* dispatch order and, within a category, in the order the handler returned
\* them; each carries `_source_worker` = the category of its handler and
\* `_extraction_confidence` = the aggregate confidence of its handler.
C8_CombinedOrder ==
    r_pc = "returned" =>
        /\ Len(r_result.combined_entities) = EntitiesBefore(r_tasks, Len(r_tasks) + 1)
        /\ \A k \in Completed :
             /\ r_tasks[k].worker_type = r_worker_types[k]
             /\ \A i \in 1..Len(r_tasks[k].result.entities) :
                  LET e == r_result.combined_entities[EntitiesBefore(r_tasks, k) + i]
                  IN /\ e["_source_worker"] = Tag(r_worker_types[k])
                     /\ e["_extraction_confidence"] = r_tasks[k].result.confidence
                     /\ Bare(e) = Bare(r_tasks[k].result.entities[i])

\* C8 witness: person was dispatched before date, the date handler finished
\* first, and both returned entities (the date handler one that carried a
\* `_source_worker` key of its own).
C8_Witness ==
    /\ r_pc = "returned"
    /\ r_worker_types = <<"person", "date">>
    /\ r_finished = <<2, 1>>
    /\ Len(r_result.combined_entities) = 4
    /\ r_tasks[2].result.entities[1] = FoundDateMistagged

\* C9: route builds its result only in a step in which no task is running
\* any more and which leaves the tasks as they are; before that step there
\* is no result at all, and once route has returned every task has either
\* returned or raised.
C9_JoinBarrier ==
    /\ [][r_result' # r_result =>
            /\ \A k \in 1..Len(r_tasks) : r_tasks[k].state \in {"returned", "raised"}
            /\ r_tasks' = r_tasks]_vars
    /\ [](r_pc # "returned" => r_result = NoRouting)
    /\ [](r_pc = "returned" =>
            \A k \in 1..Len(r_tasks) : r_tasks[k].state \in {"returned", "raised"})

\* C9 witness: the four handlers of extract_all finished last to first, one
\* of them by raising, before route returned.
C9_Witness ==
    /\ r_pc = "returned"
    /\ r_finished = <<4, 3, 2, 1>>
    /\ \E k \in 1..4 : r_tasks[k].state = "raised"
    /\ \E k \in 1..4 : r_tasks[k].state = "returned"

(***************************************************************************)
(* Properties of the pipeline.                                             *)
(***************************************************************************)
\* C5: whatever the handlers and the oracle do, a run of the pipeline
\* classify, route, merge_entities, validate_and_aggregate raises nothing
\* (merge_entities does not raise on a list route produced, nor does the
\* validation after it), and /extract/smart never answers with an error.
C5_PipelineNeverRaises ==
    /\ r_pc = "returned" => (m_pc # "raised" /\ v_pc # "raised")
    /\ e_endpoint = "smart" => e_response.status # 500

\* C10: every list handed to merge_entities (route's combined_entities and
\* the lists of /extract/all and /extract/smart) consists of entities that
\* carry the `_source_worker` tag of the handler that produced them, and
\* two entities of different handlers are never compared by a comparator.
C10_MergeInputsTagged ==
    m_pc \in {"returned", "raised"} =>
        \A i \in 1..Len(m_entities) :
            /\ "_source_worker" \in DOMAIN m_entities[i]
            /\ m_entities[i]["_source_worker"] = Tag(p_origin[i])
            /\ \A j \in 1..Len(m_entities) :
                 p_origin[i] # p_origin[j] =>
                    _calculate_similarity(m_entities[i], m_entities[j]).reason
                        = "different_type"

(***************************************************************************)
(* Properties of the oracle's verdict.                                     *)
(***************************************************************************)
\* the list the instructions are applied to: validated_entities, or the
\* supplied list when the verdict has none
OracleValidated ==
    IF v_oracle.data.has_validated THEN v_oracle.data.validated_entities
    ELSE v_supplied

\* an instruction with indices and a merged_entity
WellFormed(merge) ==
    merge.kind = "object" /\ merge.has_merged /\ merge.indices # <<>>

\* the 0-based indices the instructions name
ReferencedBy(merges) == UNION {Range(merges[k].indices) : k \in 1..Len(merges)}

RECURSIVE NotReferenced(_, _, _)
\* the entities of validated[i..] (0-based) that no referenced index names
NotReferenced(validated, referenced, i) ==
    IF i >= Len(validated) THEN <<>>
    ELSE (IF i \in referenced THEN <<>> ELSE <<validated[i + 1]>>)
         \o NotReferenced(validated, referenced, i + 1)

MergedEntitiesOf(merges) == [k \in 1..Len(merges) |-> merges[k].merged_entity]

\* C11: for every verdict whose duplicates_to_merge instructions each carry
\* indices and a merged_entity, the returned entity list is the validated
\* list without exactly the entities at the referenced indices (an index
\* outside the list removes nothing), followed by the merged_entity of each
\* instruction in order.
C11_InstructionsApplied ==
    (/\ v_pc \in {"returned", "raised"}
     /\ v_oracle.kind = "object"
     /\ v_oracle.data.duplicates_to_merge # <<>>
     /\ \A k \in 1..Len(v_oracle.data.duplicates_to_merge) :
            WellFormed(v_oracle.data.duplicates_to_merge[k]))
        => /\ v_pc = "returned"
           /\ v_result.entities
                = NotReferenced(OracleValidated,
                                ReferencedBy(v_oracle.data.duplicates_to_merge), 0)
                  \o MergedEntitiesOf(v_oracle.data.duplicates_to_merge)

\* the members of ValidationStatus
ValidationStatus == {"valid", "invalid", "needs_review", "merged"}

\* C12: the status of every returned ValidationResult is a member of
\* ValidationStatus; when the oracle's verdict is parsed and applied, a
\* status naming a member is returned as that member and a missing or
\* unrecognized status as valid.
C12_StatusVocabulary ==
    v_pc \in {"returned", "raised"} =>
        /\ v_pc = "returned"
        /\ v_result.status \in ValidationStatus
        /\ (AggregatorEnabled(v_config) /\ ~ OracleUnusable) =>
              v_result.status
                = IF v_oracle.data.has_status /\ v_oracle.data.status \in ValidationStatus
                  THEN v_oracle.data.status ELSE "valid"

(***************************************************************************)
(* SpecMergeOrder: merge_entities on lists long enough for two merges,     *)
(* over amounts that are exact and near duplicates of each other, one      *)
(* without a confidence and one that is itself the record of an earlier    *)
(* merge.                                                                  *)
(***************************************************************************)
AmountUnrated ==
    ("_source_worker" :> Tag("amount")) @@ ("normalized_value" :> Num(100, 1))

AmountRemerged ==
    ("_source_worker" :> Tag("amount")) @@ ("normalized_value" :> Num(101, 1))
    @@ ("confidence" :> Num(3, 10)) @@ ("_merged_from" :> List(<<7, 8>>))
    @@ ("_merge_confidence" :> Num(1, 2))

OrderCatalog ==
    {AmountHundred, AmountHundredOne, AmountUnrated, AmountRemerged, DateIso}

InitMergeOrder ==
    /\ m_pc = "input"
    /\ m_entities \in ListsOver(OrderCatalog, MaxOrdered)
    /\ m_result = NoResult
    /\ ValidateOff /\ RouteOff /\ EndpointOff /\ UnitOff

NextMergeOrder == MergeEntities

SpecMergeOrder == InitMergeOrder /\ [][NextMergeOrder]_vars

\* a.get('confidence', 0.5) of a numeric confidence
ConfidenceOrHalf(entity) == Get(entity, "confidence", Num(1, 2))

\* C13: every merged record of merge_entities names in `_merged_from` two
\* original indices, the lower first; its `confidence` is the larger of the
\* two inputs' confidences (0.5 for an input without one); its
\* `_merge_confidence` is the similarity of the two inputs, which is at or
\* above the threshold; and this holds whatever same-named fields the
\* inputs carry.
C13_MergedProvenance ==
    m_pc = "returned" =>
        \A p \in 1..m_result.nmerged :
            \E i \in 0..(Len(m_entities) - 1) : \E j \in (i + 1)..(Len(m_entities) - 1) :
                LET a == m_entities[i + 1]
                    b == m_entities[j + 1]
                    rec == m_result.out[p]
                    sim == _calculate_similarity(a, b)
                IN /\ rec["_merged_from"] = List(<<i, j>>)
                   /\ rec["confidence"]
                        = IF RatLeq(ConfidenceOrHalf(b), ConfidenceOrHalf(a))
                          THEN ConfidenceOrHalf(a) ELSE ConfidenceOrHalf(b)
                   /\ rec["_merge_confidence"] = Num(sim.n, sim.d)
                   /\ RatLeq(SIMILARITY_THRESHOLD, rec["_merge_confidence"])

\* C13 witness: a merged record made of an amount without a confidence and
\* of the record of an earlier merge, which carries provenance of its own
\* and a confidence below 0.5.
C13_Witness ==
    /\ m_pc = "returned"
    /\ m_result.nmerged >= 1
    /\ \E i, j \in 1..Len(m_entities) :
         /\ m_entities[i] = AmountUnrated
         /\ m_entities[j] = AmountRemerged
         /\ m_result.out[1]["_merged_from"] = List(<<i - 1, j - 1>>)
         /\ m_result.out[1]["confidence"] = Num(1, 2)

\* C14: the output of merge_entities is its merged records, in
\* non-increasing order of the similarity that triggered them, followed by
\* the entities that were not merged, in their original order.
C14_OutputOrder ==
    m_pc = "returned" =>
        /\ \A p \in 1..m_result.nmerged :
             /\ "_merged_from" \in DOMAIN m_result.out[p]
             /\ Range(m_result.out[p]["_merged_from"].l) \subseteq m_result.consumed
             /\ \A q \in (p + 1)..m_result.nmerged :
                  RatLeq(m_result.out[q]["_merge_confidence"],
                         m_result.out[p]["_merge_confidence"])
        /\ SubSeq(m_result.out, m_result.nmerged + 1, Len(m_result.out))
             = NotReferenced(m_entities, m_result.consumed, 0)

\* C14 witness: two merges of different similarity, the less similar pair
\* standing first in the input.
C14_Witness ==
    /\ m_pc = "returned"
    /\ Len(m_entities) = 4
    /\ m_result.nmerged = 2
    /\ m_result.out[1]["_merged_from"] = List(<<2, 3>>)
    /\ m_result.out[2]["_merged_from"] = List(<<0, 1>>)
    /\ RatLess(m_result.out[2]["_merge_confidence"], m_result.out[1]["_merge_confidence"])

(***************************************************************************)
(* SpecClassify: for every bounded query, one call of                      *)
(* QueryClassifier.classify, of QueryRouter.classify, or of route without  *)
(* force_types up to the creation of its tasks.                            *)
(***************************************************************************)
ClassifierQueries ==
    {query \in [date_kw : 0..MaxClassified, person_kw : 0..MaxClassified,
                org_kw : 0..MaxClassified, amount_kw : 0..MaxClassified,
                date_pat : 0..MaxClassified, amount_pat : 0..MaxClassified,
                emails : 0..MaxClassified] : Signals(query) <= MaxClassified}

\* QueryClassifier.classify(query)
ClassifierClassify ==
    /\ c_pc = "input"
    /\ c_classification' = classify(c_query)
    /\ c_pc' = "classified"
    /\ UNCHANGED <<c_query, c_router, c_tasks>>
    /\ UNCHANGED <<mergeVars, validateVars, routeVars, endpointVars, workerVars,
                   managerVars>>

\* QueryRouter.classify(query)
RouterClassifies ==
    /\ c_pc = "input"
    /\ c_router' = RouterClassify(classify(c_query))
    /\ c_pc' = "selected"
    /\ UNCHANGED <<c_query, c_classification, c_tasks>>
    /\ UNCHANGED <<mergeVars, validateVars, routeVars, endpointVars, workerVars,
                   managerVars>>

\* QueryRouter.route(query), lines 57-95
RouteDispatches ==
    /\ c_pc = "input"
    /\ c_tasks' = TasksFrom(MappedTypes(TargetTypes(NotForced, classify(c_query))), 1)
    /\ c_pc' = "dispatched"
    /\ UNCHANGED <<c_query, c_classification, c_router>>
    /\ UNCHANGED <<mergeVars, validateVars, routeVars, endpointVars, workerVars,
                   managerVars>>

InitClassify ==
    /\ ClassifyIdle("input")
    /\ c_query \in ClassifierQueries
    /\ MergeOff /\ ValidateOff /\ RouteOff /\ EndpointOff /\ WorkerOff
    /\ ManagerOff

NextClassify == ClassifierClassify \/ RouterClassifies \/ RouteDispatches

SpecClassify == InitClassify /\ [][NextClassify]_vars

\* the score of a category in hundredths: 15 per keyword, 30 per pattern
\* match, 25 per e-mail address, at most 100; general has 10
ExpectedScore(query, t) ==
    LET raw == CASE t = "date"   -> 15 * query.date_kw + 30 * query.date_pat
                 [] t = "person" -> 15 * query.person_kw + 25 * query.emails
                 [] t = "org"    -> 15 * query.org_kw
                 [] t = "amount" -> 15 * query.amount_kw + 30 * query.amount_pat
                 [] OTHER        -> 10
    IN IF raw > 100 THEN 100 ELSE raw

Categories == {"date", "person", "org", "amount", "general"}

\* C15: classify gives each category once in all_types, with its clamped
\* score, in non-increasing order of score; the primary type is multi
\* exactly when two or more categories score 0.3 or more and otherwise a
\* category of the highest score; the confidence is the highest score.
C15_PrimaryType ==
    c_pc = "classified" =>
        LET all_types == c_classification.all_types
            high == {t \in Categories : ExpectedScore(c_query, t) >= 30}
            top == CHOOSE x \in {ExpectedScore(c_query, t) : t \in Categories} :
                       \A t \in Categories : ExpectedScore(c_query, t) <= x
        IN /\ Len(all_types) = 5
           /\ {all_types[k].type : k \in 1..5} = Categories
           /\ \A k \in 1..5 : all_types[k].score = ExpectedScore(c_query, all_types[k].type)
           /\ \A k \in 1..4 : all_types[k].score >= all_types[k + 1].score
           /\ (c_classification.primary_type = "multi") <=> (Cardinality(high) >= 2)
           /\ Cardinality(high) < 2 =>
                /\ c_classification.primary_type \in Categories
                /\ ExpectedScore(c_query, c_classification.primary_type) = top
           /\ c_classification.confidence = top

\* C15 witness: a query with two pattern matches of a date and two person
\* keywords, which score 0.6 and 0.3, was classified multi.
C15_Witness ==
    /\ c_pc = "classified"
    /\ c_classification.primary_type = "multi"
    /\ c_classification.confidence = 60
    /\ c_query.date_pat = 2
    /\ c_query.person_kw = 2

\* C16: a query without any keyword or pattern match is classified general
\* with confidence 0.1; in every classification the general score is 0.1
\* and every score lies between 0 and 1.
C16_GeneralBaseline ==
    c_pc = "classified" =>
        /\ Signals(c_query) = 0 =>
             /\ c_classification.primary_type = "general"
             /\ c_classification.confidence = 10
        /\ \A k \in 1..Len(c_classification.all_types) :
             /\ c_classification.all_types[k].score \in 0..100
             /\ c_classification.all_types[k].type = "general" =>
                  c_classification.all_types[k].score = 10
        /\ \E k \in 1..Len(c_classification.all_types) :
             c_classification.all_types[k].type = "general"

\* C16 witness: the query without signals was classified.
C16_Witness ==
    /\ c_pc = "classified"
    /\ Signals(c_query) = 0
    /\ c_classification.all_types[1] = [type |-> "general", score |-> 10]

\* C16 witness of the clamp: four matches of an amount pattern.
C16_ClampReached ==
    /\ c_pc = "classified"
    /\ c_query.amount_pat = 4
    /\ c_classification.all_types[1] = [type |-> "amount", score |-> 100]

\* C17: QueryRouter.classify returns date, person, org, amount when no
\* category other than general scores 0.2 or more, and otherwise exactly
\* the categories other than general that score 0.2 or more; route without
\* force_types creates at least one task, the general one when the query
\* has no signal.
C17_SelectionNeverEmpty ==
    LET relevant == {t \in Categories \ {"general"} : ExpectedScore(c_query, t) >= 20}
    IN /\ c_pc = "selected" =>
            /\ c_router.worker_types # <<>>
            /\ relevant = {} => c_router.worker_types = <<"date", "person", "org", "amount">>
            /\ relevant # {} =>
                 /\ Range(c_router.worker_types) = relevant
                 /\ Len(c_router.worker_types) = Cardinality(relevant)
       /\ c_pc = "dispatched" =>
            /\ Len(c_tasks) >= 1
            /\ Signals(c_query) = 0 =>
                 (Len(c_tasks) = 1 /\ c_tasks[1].worker_type = "general")

\* C17 witness: QueryRouter.classify fell back to the four categories for a
\* query whose only signal is one keyword.
C17_Witness ==
    /\ c_pc = "selected"
    /\ Signals(c_query) = 1
    /\ c_query.org_kw = 1
    /\ c_router.worker_types = <<"date", "person", "org", "amount">>

\* C17 witness of route: the general task for the query without signals.
C17_RouteWitness ==
    /\ c_pc = "dispatched"
    /\ Signals(c_query) = 0
    /\ Len(c_tasks) = 1

(***************************************************************************)
(* The handlers on their own: one call of parse_response on a raw          *)
(* response, or of extract on a text, for one of the five handlers.        *)
(***************************************************************************)
\* extract from line 76 on, for the response _generate returned
ExtractParsed(worker_type, response, parsed) ==
    IF parsed.exc THEN [exc |-> TRUE, result |-> NoExtraction]
    ELSE extract(worker_type, Response(parsed.entities, Hedged(response)))

ExtractFrom(worker_type, response) ==
    ExtractParsed(worker_type, response, parse_response(worker_type, response))


\* JSON objects a backend may answer with
NullFields == ("name" :> Null) @@ ("amount" :> Null) @@ ("confidence" :> Null)

NullAmountScaled == ("amount" :> Null) @@ ("multiplier" :> Str(<<"K">>))

TwoMillionItem ==
    ("amount_string" :> Str(<<"t", "w", "o">>)) @@ ("amount" :> Str(<<"2">>))
    @@ ("multiplier" :> Str(<<"m", "i", "l", "l", "i", "o", "n">>)) @@ ("confidence" :> Num(9, 10))

\* the pieces the texts and raw responses are made of
PieceCatalog ==
    {Plain, Hedge,
     Bracketed(FALSE, <<>>),
     Bracketed(TRUE, <<Scalar(Num(1, 1)), Scalar(Num(2, 1))>>),
     Bracketed(TRUE, <<Scalar(Str(<<"a">>))>>),
     Bracketed(TRUE, <<NullFields>>),
     Bracketed(TRUE, <<NullAmountScaled>>),
     Bracketed(TRUE, <<TwoMillionItem>>),
     DateText(2, IsoDate, Str(IsoDate)),
     DateText(1, <<"1", "3", "/", "4", "5", "/", "9", "9">>, Null),
     EmailText(<<"a", ".", "b", "@", "c", ".", "i", "o">>, <<"A", " ", "B">>, <<"C">>),
     OrgText(<<"A", "c", "m", "e", " ", "I", "n", "c">>),
     NameText(<<"J", "o", "h", "n", " ", "S", "m", "i", "t", "h">>),
     AmountText("USD", <<"2", " ", "m", "i", "l", "l", "i", "o", "n">>),
     AmountText("USD", <<"2", ",", "0", "0", "0", ",", "0", "0", "0">>),
     AmountText("USD", <<"2", "0", "0", "0", "0", "0", "0">>),
     AmountText("USD", <<"5", " ", "m", "o", "r", "e">>),
     AmountText("EUR", <<" ", "1", ".", "5", "K">>),
     AmountText("GBP", <<"1", " ", "b", "y">>),
     AmountText("USD", <<"x">>)}

\* the texts and raw responses of at most MaxPieces pieces
Texts == UNION {[1..n -> PieceCatalog] : n \in 0..MaxPieces}

\* the call is over: with an exception, or with entities and a confidence
CallReturns(call, response, exc, entities, confidence) ==
    /\ w_call' = call
    /\ w_response' = response
    /\ w_pc' = IF exc THEN "raised" ELSE "returned"
    /\ w_result' = IF exc THEN NoHandlerResult
                   ELSE [entities |-> entities, confidence |-> confidence]

ParseReturns(parsed) ==
    CallReturns("parse_response", w_text, parsed.exc, parsed.entities, Num(0, 1))

ExtractReturns(response, out) ==
    CallReturns("extract", response, out.exc, out.result.entities, out.result.confidence)

\* worker.parse_response(raw) for a raw response
ParseResponse ==
    /\ w_pc = "input"
    /\ ParseReturns(parse_response(w_worker, w_text))
    /\ UNCHANGED <<w_worker, w_text, w_backend>>
    /\ UNCHANGED <<mergeVars, validateVars, routeVars, endpointVars, classifyVars,
                   managerVars>>

\* worker.extract(text) as the class stands: _generate returns the prompt
Extract ==
    /\ w_pc = "input"
    /\ ExtractReturns(FullPrompt(w_worker, w_text),
                      ExtractFrom(w_worker, FullPrompt(w_worker, w_text)))
    /\ UNCHANGED <<w_worker, w_text, w_backend>>
    /\ UNCHANGED <<mergeVars, validateVars, routeVars, endpointVars, classifyVars,
                   managerVars>>

\* worker.extract(text) with _generate overridden by a generative backend,
\* which answers with a raw response of its own (here: the text again)
ExtractAttached ==
    /\ w_pc = "input"
    /\ w_backend' = TRUE
    /\ ExtractReturns(w_text, ExtractFrom(w_worker, w_text))
    /\ UNCHANGED <<w_worker, w_text>>
    /\ UNCHANGED <<mergeVars, validateVars, routeVars, endpointVars, classifyVars,
                   managerVars>>

InitExtract ==
    /\ WorkerIdle("input")
    /\ w_worker \in Workers
    /\ w_text \in Texts
    /\ w_backend = FALSE
    /\ MergeOff /\ ValidateOff /\ RouteOff /\ EndpointOff /\ ClassifyOff
    /\ ManagerOff

NextExtract == ParseResponse \/ Extract \/ ExtractAttached

SpecExtract == InitExtract /\ [][NextExtract]_vars

\* C18: whatever the raw response or the text is (an array that is not
\* JSON, a JSON array of numbers or strings, objects with null fields), no
\* call of parse_response or extract of any handler ends in an exception.
C18_HandlersNeverRaise == w_pc # "raised"

\* C19: extract of a handler without a generative backend, called with the
\* empty text, returns no entity and the confidence 0.0.
C19_EmptyTextSafe ==
    (w_call = "extract" /\ ~ w_backend /\ w_text = <<>>) =>
        /\ w_pc = "returned"
        /\ w_result.entities = <<>>
        /\ w_result.confidence = Num(0, 1)

\* the number after the symbol as a reader takes it: the longest stretch of
\* digits, separators and point after the blanks
RECURSIVE NumeralEnd(_, _)
NumeralEnd(chars, i) ==
    IF i <= Len(chars) /\ (IsDigit(chars[i]) \/ chars[i] \in {",", "."})
    THEN NumeralEnd(chars, i + 1) ELSE i

\* the word that follows position i: the letters up to the next blank
RECURSIVE WordEnd(_, _)
WordEnd(chars, i) ==
    IF i <= Len(chars) /\ chars[i] # " " THEN WordEnd(chars, i + 1) ELSE i

FollowingWord(chars, i) ==
    SubSeq(chars, SkipBlanks(chars, i), WordEnd(chars, SkipBlanks(chars, i)) - 1)

\* number times the factor of the scale word that follows, the number
\* itself when another word or none follows
ScaleMultiplicative(chars, start) ==
    Scaled(_parse_number(SubSeq(chars, start, NumeralEnd(chars, start) - 1)),
           MULTIPLIERS(FollowingWord(chars, NumeralEnd(chars, start))))

\* C20: for a currency symbol followed by a number, the normalized value
\* of the amount entity is the number, separators removed, times the factor
\* of the scale word that follows it, and the number when none follows.
C20_ScaleMultiplicative ==
    (/\ w_pc = "returned" /\ w_call = "parse_response" /\ w_worker = "amount"
     /\ Len(w_text) = 1 /\ AmountMatches(w_text[1])) =>
        /\ Len(w_result.entities) = 1
        /\ w_result.entities[1]["normalized_value"] =
              ScaleMultiplicative(w_text[1].chars, SkipBlanks(w_text[1].chars, 1))

\* C21: the person handler returns a candidate for every capitalized name
\* in the text, whether or not the text holds an e-mail address.
C21_NameCandidates ==
    (w_pc = "returned" /\ w_worker = "person" /\ w_call = "parse_response") =>
        \A i \in 1..Len(w_text) :
            w_text[i].kind = "name" =>
                \E k \in 1..Len(w_result.entities) :
                    /\ IsObject(w_result.entities[k])
                    /\ GetOrNone(w_result.entities[k], "name") = Str(w_text[i].chars)

(***************************************************************************)
(* Properties of the greedy walk of merge_entities.                        *)
(***************************************************************************)
\* the similarity of the entities at the 0-based indices of pair
SimilarityAt(entities, pair) ==
    _calculate_similarity(entities[pair[1] + 1], entities[pair[2] + 1])

\* the pairs i < j whose similarity is at or above the threshold
CandidatePairs(entities) ==
    {pair \in (0..(Len(entities) - 1)) \X (0..(Len(entities) - 1)) :
        /\ pair[1] < pair[2]
        /\ ~ SimilarityAt(entities, pair).exc
        /\ RatLeq(SIMILARITY_THRESHOLD, SimilarityAt(entities, pair))}

\* the pairs named by the merged records of r
MergedPairs(r) == {<<MergedFrom(r, p)[1], MergedFrom(r, p)[2]>> : p \in 1..r.nmerged}

SharesIndex(c, m) == {c[1], c[2]} \cap {m[1], m[2]} # {}

\* C22: merge_entities merges candidates only, no two merged candidates
\* share an index, a candidate that was not merged shares an index with a
\* merged candidate of equal or higher similarity, and when there is a
\* candidate, one of maximal similarity is merged.
C22_GreedySimilarityFirst ==
    m_pc = "returned" =>
        /\ MergedPairs(m_result) \subseteq CandidatePairs(m_entities)
        /\ Cardinality(MergedPairs(m_result)) = m_result.nmerged
        /\ \A c, m \in MergedPairs(m_result) : c # m => ~ SharesIndex(c, m)
        /\ \A c \in CandidatePairs(m_entities) \ MergedPairs(m_result) :
             \E m \in MergedPairs(m_result) :
                 /\ SharesIndex(c, m)
                 /\ RatLeq(SimilarityAt(m_entities, c), SimilarityAt(m_entities, m))
        /\ CandidatePairs(m_entities) # {} =>
             \E m \in MergedPairs(m_result) : \A c \in CandidatePairs(m_entities) :
                 RatLeq(SimilarityAt(m_entities, c), SimilarityAt(m_entities, m))

\* C22 witness: a chain of candidates over three entities in which the
\* pair that stands first in the input is less similar than the one merged
\* and was skipped for it.
C22_Witness ==
    /\ m_pc = "returned"
    /\ <<0, 1>> \in CandidatePairs(m_entities) \ MergedPairs(m_result)
    /\ \E m \in MergedPairs(m_result) :
         /\ SharesIndex(<<0, 1>>, m)
         /\ RatLess(SimilarityAt(m_entities, <<0, 1>>), SimilarityAt(m_entities, m))

\* C26: when merge_entities returns, no two entities that were both left
\* unmerged have a similarity at or above the threshold.
C26_MatchingMaximal ==
    m_pc = "returned" =>
        \A c \in CandidatePairs(m_entities) :
            c[1] \in m_result.consumed \/ c[2] \in m_result.consumed

\* C26 witness: one pair of four entities was merged and two entities
\* that are no duplicates of each other passed through.
C26_Witness ==
    /\ m_pc = "returned"
    /\ Len(m_entities) = 4
    /\ m_result.nmerged = 1
    /\ Len(m_result.out) = 3

\* C24: two amount entities with equal normalized values, zero included,
\* have similarity 1.0 with reason exact_amount; unequal values have the
\* similarity min/max when that exceeds 0.99 (similar_amount) and 0
\* otherwise; the comparison raises nothing and stays within [0, 1].
C24_AmountComparator ==
    \A i, j \in 1..Len(m_entities) :
        (/\ i < j
         /\ GetOrNone(m_entities[i], "_source_worker") = Tag("amount")
         /\ GetOrNone(m_entities[j], "_source_worker") = Tag("amount")
         /\ GetOrNone(m_entities[i], "normalized_value").kind = "num"
         /\ GetOrNone(m_entities[j], "normalized_value").kind = "num") =>
            LET a == m_entities[i]["normalized_value"]
                b == m_entities[j]["normalized_value"]
                lo == IF RatLeq(a, b) THEN a ELSE b
                hi == IF RatLeq(a, b) THEN b ELSE a
                sim == _calculate_similarity(m_entities[i], m_entities[j])
            IN /\ ~ sim.exc
               /\ RatLeq(Num(0, 1), sim) /\ RatLeq(sim, Num(1, 1))
               /\ a = b => (Num(sim.n, sim.d) = Num(1, 1) /\ sim.reason = "exact_amount")
               /\ (a # b /\ RatLess([n |-> 99 * hi.n, d |-> 100 * hi.d], lo)) =>
                     (Num(sim.n, sim.d) = Num(lo.n * hi.d, lo.d * hi.n)
                      /\ sim.reason = "similar_amount")
               /\ (a # b /\ ~ RatLess([n |-> 99 * hi.n, d |-> 100 * hi.d], lo)) =>
                     sim.n = 0

\* C25: validate_and_aggregate leaves the caller's entity list as it was,
\* on the success path and on every fallback path.
C25_CallerListUntouched ==
    v_pc \in {"returned", "raised"} => v_entities = v_supplied

(***************************************************************************)
(* SpecReconcile: merge_entities on organizations that are duplicates of   *)
(* each other by name and differ in their other fields: lists, numbers,    *)
(* strings of different length, null and missing fields, equal and         *)
(* missing confidences.                                                    *)
(***************************************************************************)
OrgAliased ==
    ("_source_worker" :> Tag("org")) @@ ("name" :> Str(<<"a", " ", "c", "o">>))
    @@ ("aliases" :> List(<<1, 2>>)) @@ ("size" :> Num(10, 1))
    @@ ("industry" :> Str(<<"x">>)) @@ ("confidence" :> Num(9, 10))

OrgNamed ==
    ("_source_worker" :> Tag("org")) @@ ("name" :> Str(<<"a">>))
    @@ ("aliases" :> List(<<2, 3>>)) @@ ("size" :> Num(20, 1))
    @@ ("industry" :> Null) @@ ("location" :> Str(<<"y", "y">>))
    @@ ("confidence" :> Num(8, 10))

OrgUnrated ==
    ("_source_worker" :> Tag("org")) @@ ("name" :> Str(<<"a", " ", "c", "o">>))
    @@ ("aliases" :> Str(<<"z", "z">>)) @@ ("size" :> Num(30, 1))
    @@ ("location" :> Str(<<"y">>))

OrgEqualRated ==
    ("_source_worker" :> Tag("org")) @@ ("name" :> Str(<<"a">>))
    @@ ("aliases" :> List(<<3>>)) @@ ("size" :> Str(<<"1", "2", "3", "4", "5">>))
    @@ ("confidence" :> Num(9, 10))

OrgHalfRated ==
    ("_source_worker" :> Tag("org")) @@ ("name" :> Str(<<"a", " ", "i", "n", "c">>))
    @@ ("aliases" :> List(<<>>)) @@ ("size" :> Num(5, 1))
    @@ ("industry" :> Str(<<"x", "y">>)) @@ ("confidence" :> Num(1, 2))

ReconcileCatalog == {OrgAliased, OrgNamed, OrgUnrated, OrgEqualRated, OrgHalfRated}

InitReconcile ==
    /\ m_pc = "input"
    /\ m_entities \in ListsOver(ReconcileCatalog, MaxReconciled)
    /\ m_result = NoResult
    /\ ValidateOff /\ RouteOff /\ EndpointOff /\ UnitOff

NextReconcile == MergeEntities

SpecReconcile == InitReconcile /\ [][NextReconcile]_vars

\* the fields merge_entities sets itself
ProvenanceKeys == {"confidence", "_merged_from", "_merge_confidence"}

\* is value what the reconciliation of val_a and val_b should be, a and b
\* being the merged entities (a field that is None counts as missing)
Reconciles(value, a, b, val_a, val_b) ==
    IF val_a.kind = "null" THEN value = val_b
    ELSE IF val_b.kind = "null" THEN value = val_a
    ELSE IF val_a.kind = "list" /\ val_b.kind = "list"
    THEN /\ value.kind = "list"
         /\ Range(value.l) = Range(val_a.l) \cup Range(val_b.l)
         /\ Len(value.l) = Cardinality(Range(value.l))
    ELSE IF val_a.kind = "num" /\ val_b.kind = "num"
    THEN value = (IF RatLess(ConfidenceOrHalf(a), ConfidenceOrHalf(b)) THEN val_b ELSE val_a)
    ELSE value = (IF StrLen(val_a) < StrLen(val_b) THEN val_b ELSE val_a)

\* C23: the keys of a merged record are the keys of its two inputs (and the
\* fields merge_entities sets), and every other field holds the present
\* side's value, the duplicate-free union of two lists, the number of the
\* more confident side (the first on a tie), or else the value with the
\* longer string form (the first on a tie).
C23_FieldReconciliation ==
    m_pc = "returned" =>
        \A p \in 1..m_result.nmerged :
            LET a == m_entities[MergedFrom(m_result, p)[1] + 1]
                b == m_entities[MergedFrom(m_result, p)[2] + 1]
                rec == m_result.out[p]
            IN /\ DOMAIN rec = DOMAIN a \cup DOMAIN b \cup ProvenanceKeys
               /\ \A key \in (DOMAIN a \cup DOMAIN b) \ ProvenanceKeys :
                    Reconciles(rec[key], a, b, GetOrNone(a, key), GetOrNone(b, key))

\* C23 witness: a merge in which the second input is the more confident
\* one and gave its number, the lists were united, a null field was filled
\* from the other side and the longer name was kept.
C23_Witness ==
    /\ m_pc = "returned"
    /\ m_result.nmerged >= 1
    /\ m_entities[MergedFrom(m_result, 1)[1] + 1] = OrgNamed
    /\ m_entities[MergedFrom(m_result, 1)[2] + 1] = OrgAliased
    /\ m_result.out[1]["size"] = Num(10, 1)
    /\ m_result.out[1]["aliases"] = List(<<1, 2, 3>>)
    /\ m_result.out[1]["industry"] = Str(<<"x">>)
    /\ m_result.out[1]["name"] = Str(<<"a", " ", "c", "o">>)
    /\ m_result.out[1]["location"] = Str(<<"y", "y">>)

\* the handlers route created a task for
Dispatched == {c_tasks[k].worker_type : k \in 1..Len(c_tasks)}

\* C27: for the same query, the list of QueryRouter.classify holds every
\* category other than general that route without force_types dispatches
\* to, and it is the list of all four categories whenever route
\* dispatches to the general handler alone.
C27_ClassifyCoversRoute ==
    c_pc = "dispatched" =>
        /\ Dispatched \ {"general"}
             \subseteq Range(RouterClassify(classify(c_query)).worker_types)
        /\ Dispatched = {"general"} =>
             RouterClassify(classify(c_query)).worker_types
                 = <<"date", "person", "org", "amount">>

\* C27 witness: route dispatched to the date handler alone for a query
\* whose date score is below the relevance threshold of classify.
C27_Witness ==
    /\ c_pc = "dispatched"
    /\ Dispatched = {"date"}
    /\ Score(c_query, "date") < RELEVANT_SCORE


(***************************************************************************)
(* PipelineManager (pipeline/manager.py): generate callers and worker      *)
(* loops are coroutines of one asyncio event loop.  A coroutine runs alone *)
(* from one await that suspends it to the next, so each action below is    *)
(* the code between two such awaits.                                       *)
(***************************************************************************)
otherVars == <<mergeVars, validateVars, routeVars, endpointVars, classifyVars,
               workerVars>>

\* None, the default of GenerationTask.result and GenerationTask.error
NoValue == [kind |-> "none", of |-> 0]

\* a GenerationTask as generate creates it: status PENDING, no result, no error
GenerationTask(id) ==
    [id |-> id, status |-> "pending", result |-> NoValue, error |-> NoValue]

\* what model.generate returns for the prompt of the task
ResultOf(task) == [kind |-> "result", of |-> task.id]

\* str(e) of the exception model.generate raises for the prompt of the task
ErrorOf(task) == [kind |-> "error", of |-> task.id]

\* line 89: task.status = TaskStatus.PROCESSING
TaskProcessing(task) == [task EXCEPT !.status = "processing"]

TaskCompletedWithoutResult(task, result) == [task EXCEPT !.status = "completed"]

\* lines 99-100: task.result = result; task.status = TaskStatus.COMPLETED
TaskCompleted(task, result) ==
    [task EXCEPT !.result = result, !.status = "completed"]

TaskFailedLeftProcessing(task, error) == [task EXCEPT !.error = error]

\* lines 103-104: task.error = str(e); task.status = TaskStatus.FAILED
TaskFailed(task, error) == [task EXCEPT !.error = error, !.status = "failed"]

\* a worker loop suspended in task_queue.get(), holding no task
WaitingLoop == [pc |-> "waiting", task |-> 0]

\* worker.cancel() of shutdown, on a worker loop suspended at an await: in
\* task_queue.get() the CancelledError is caught (line 86) and the loop
\* breaks; in model.generate it is no Exception, so lines 101-104 do not
\* run and it ends the loop with the task as it is
Cancelled(loop) ==
    CASE loop.pc = "waiting" -> [loop EXCEPT !.pc = "exited"]
      [] loop.pc = "generating" -> [loop EXCEPT !.pc = "cancelled"]
      [] OTHER -> loop

\* a call of generate not made yet
IdleCaller == [pc |-> "idle", task |-> 0, outcome |-> NoValue]

\* the status test of generate's polling loop (line 128)
Unfinished(task) == task.status \in {"pending", "processing"}

\* PipelineManager(settings): no worker, nothing queued, not running
ManagerInit ==
    /\ ManagerIdle("constructed")
    /\ g_callers = [c \in 1..MaxCalls |-> IdleCaller]

\* initialize: _running = True, one _worker_loop per worker; each loop
\* runs to its first task_queue.get()
Initialize ==
    /\ g_pc = "constructed"
    /\ \E n \in 0..MaxLoops : g_workers' = [w \in 1..n |-> WaitingLoop]
    /\ g_pc' = "initialized"
    /\ g_running' = TRUE
    /\ UNCHANGED <<g_task_counter, g_task_queue, g_tasks, g_taken, g_callers>>
    /\ UNCHANGED otherVars

\* generate up to its first sleep: the task is created and queued (put on
\* the unbounded queue does not suspend).  The application calls it from
\* its request handlers, which are served until shutdown.  Calls are
\* numbered in the order they are made: the c-th call creates task c.
Generate(c) ==
    /\ g_pc \in {"constructed", "initialized"}
    /\ c = g_task_counter + 1
    /\ g_callers[c].pc = "idle"
    /\ g_task_counter' = g_task_counter + 1
    /\ g_tasks' = Append(g_tasks, GenerationTask(g_task_counter'))
    /\ g_taken' = Append(g_taken, 0)
    /\ g_task_queue' = Append(g_task_queue, g_task_counter')
    /\ g_callers' = [g_callers EXCEPT ![c] =
                        [pc |-> "polling", task |-> g_task_counter',
                         outcome |-> NoValue]]
    /\ UNCHANGED <<g_pc, g_running, g_workers>>
    /\ UNCHANGED otherVars

\* generate leaves its polling loop with the task COMPLETED: return task.result
GenerateReturns(c) ==
    /\ g_callers[c].pc = "polling"
    /\ g_tasks[g_callers[c].task].status = "completed"
    /\ g_callers' = [g_callers EXCEPT ![c] =
                        [@ EXCEPT !.pc = "returned",
                                  !.outcome = g_tasks[g_callers[c].task].result]]
    /\ UNCHANGED <<g_pc, g_running, g_task_counter, g_task_queue, g_tasks,
                   g_taken, g_workers>>
    /\ UNCHANGED otherVars

\* generate leaves its polling loop with the task FAILED: raise
\* Exception(task.error)
GenerateRaises(c) ==
    /\ g_callers[c].pc = "polling"
    /\ g_tasks[g_callers[c].task].status = "failed"
    /\ g_callers' = [g_callers EXCEPT ![c] =
                        [@ EXCEPT !.pc = "raised",
                                  !.outcome = g_tasks[g_callers[c].task].error]]
    /\ UNCHANGED <<g_pc, g_running, g_task_counter, g_task_queue, g_tasks,
                   g_taken, g_workers>>
    /\ UNCHANGED otherVars

\* _worker_loop: task_queue.get() hands over the head of the queue, the
\* task becomes PROCESSING and model.generate is awaited
WorkerTakes(w) ==
    /\ g_workers[w].pc = "waiting"
    /\ g_task_queue # <<>>
    /\ LET id == Head(g_task_queue) IN
        /\ g_task_queue' = Tail(g_task_queue)
        /\ g_taken' = [g_taken EXCEPT ![id] = @ + 1]
        /\ g_tasks' = [g_tasks EXCEPT ![id] = TaskProcessing(@)]
        /\ g_workers' = [g_workers EXCEPT ![w] = [pc |-> "generating", task |-> id]]
    /\ UNCHANGED <<g_pc, g_running, g_task_counter, g_callers>>
    /\ UNCHANGED otherVars

\* the loop after a task (line 106 task_done, line 78 while self._running)
NextRound(loop) ==
    IF g_running THEN WaitingLoop ELSE [loop EXCEPT !.pc = "exited"]

\* _worker_loop: model.generate returned
ModelReturns(w) ==
    /\ g_workers[w].pc = "generating"
    /\ LET id == g_workers[w].task IN
        g_tasks' = [g_tasks EXCEPT ![id] = TaskCompleted(@, ResultOf(@))]
    /\ g_workers' = [g_workers EXCEPT ![w] = NextRound(@)]
    /\ UNCHANGED <<g_pc, g_running, g_task_counter, g_task_queue, g_taken,
                   g_callers>>
    /\ UNCHANGED otherVars

\* _worker_loop: model.generate raised an Exception
ModelRaises(w) ==
    /\ g_workers[w].pc = "generating"
    /\ LET id == g_workers[w].task IN
        g_tasks' = [g_tasks EXCEPT ![id] = TaskFailed(@, ErrorOf(@))]
    /\ g_workers' = [g_workers EXCEPT ![w] = NextRound(@)]
    /\ UNCHANGED <<g_pc, g_running, g_task_counter, g_task_queue, g_taken,
                   g_callers>>
    /\ UNCHANGED otherVars

\* shutdown: _running = False, every worker loop is cancelled and awaited
Shutdown ==
    /\ g_pc = "initialized"
    /\ g_pc' = "shutdown"
    /\ g_running' = FALSE
    /\ g_workers' = [w \in DOMAIN g_workers |-> Cancelled(g_workers[w])]
    /\ UNCHANGED <<g_task_counter, g_task_queue, g_tasks, g_taken, g_callers>>
    /\ UNCHANGED otherVars

(***************************************************************************)
(* SpecManager: a manager from construction to shutdown, with up to       *)
(* MaxCalls calls of generate at any moment of its life.  The event loop   *)
(* resumes every coroutine that can run: a worker loop whose get can       *)
(* return, a model.generate call (it returns or raises), and a caller      *)
(* whose sleep is over.  initialize, shutdown and new calls are up to the  *)
(* application.                                                            *)
(***************************************************************************)
InitManager ==
    /\ ManagerInit
    /\ MergeOff /\ ValidateOff /\ RouteOff /\ EndpointOff /\ ClassifyOff
    /\ WorkerOff

LoopSteps == \E w \in DOMAIN g_workers : WorkerTakes(w)

ModelSteps == \E w \in DOMAIN g_workers : ModelReturns(w) \/ ModelRaises(w)

CallerSteps == \E c \in DOMAIN g_callers : GenerateReturns(c) \/ GenerateRaises(c)

NextManager ==
    \/ Initialize
    \/ \E c \in 1..MaxCalls : Generate(c)
    \/ LoopSteps
    \/ ModelSteps
    \/ CallerSteps
    \/ Shutdown

EventLoopFair ==
    /\ WF_vars(LoopSteps)
    /\ \A w \in 1..MaxLoops :
        WF_vars(w \in DOMAIN g_workers /\ (ModelReturns(w) \/ ModelRaises(w)))
    /\ \A c \in 1..MaxCalls : WF_vars(GenerateReturns(c) \/ GenerateRaises(c))

SpecManager == InitManager /\ [][NextManager]_vars /\ EventLoopFair


\* the steps TaskStatus takes in _worker_loop
StatusStep(before, after) ==
    \/ after = before
    \/ before = "pending" /\ after = "processing"
    \/ before = "processing" /\ after \in {"completed", "failed"}

\* the worker loops that hold the task in their local variable `task`
LoopsHolding(workers, id) ==
    {w \in DOMAIN workers : workers[w].task = id /\ workers[w].pc # "waiting"}

TaskStep(id) ==
    /\ id \in DOMAIN g_tasks => StatusStep(g_tasks[id].status, g_tasks'[id].status)
    /\ id \notin DOMAIN g_tasks => g_tasks'[id].status = "pending"
    /\ g_tasks'[id].status = "completed" => g_tasks'[id].result = ResultOf(g_tasks'[id])
    /\ g_tasks'[id].status = "failed" => g_tasks'[id].error = ErrorOf(g_tasks'[id])
    /\ g_taken'[id] = IF g_tasks'[id].status = "pending" THEN 0 ELSE 1
    /\ Cardinality(LoopsHolding(g_workers', id))
           = IF g_tasks'[id].status = "processing" THEN 1 ELSE 0
    /\ Cardinality({k \in DOMAIN g_task_queue' : g_task_queue'[k] = id})
           = 1 - g_taken'[id]

\* C28: in every step, every GenerationTask keeps its status or moves
\* PENDING -> PROCESSING or PROCESSING -> COMPLETED / FAILED (so a terminal
\* status is never left); a new task is PENDING; a COMPLETED task carries
\* the result of its own prompt and a FAILED task its own error; a PENDING
\* task is queued once and was never dequeued, any other task was
\* dequeued exactly once, and a PROCESSING task is held by exactly one
\* worker loop.
C28_TaskLifecycle == [][\A id \in DOMAIN g_tasks' : TaskStep(id)]_vars

\* two worker loops, one task COMPLETED, one FAILED, one PROCESSING
C28_Witness ==
    /\ Len(g_workers) = 2
    /\ \E a, b, c \in DOMAIN g_tasks :
        /\ g_tasks[a].status = "completed" /\ g_tasks[a].result = ResultOf(g_tasks[a])
        /\ g_tasks[b].status = "failed" /\ g_tasks[b].error = ErrorOf(g_tasks[b])
        /\ g_tasks[c].status = "processing"
        /\ LoopsHolding(g_workers, a) # LoopsHolding(g_workers, c)

Finished(c) == g_callers[c].pc \in {"returned", "raised"}

\* a finished call of generate has the outcome of its own task
OwnOutcome(c) ==
    LET task == g_tasks[g_callers[c].task] IN
    /\ g_callers[c].pc = "returned" =>
          task.status = "completed" /\ g_callers[c].outcome = ResultOf(task)
    /\ g_callers[c].pc = "raised" =>
          task.status = "failed" /\ g_callers[c].outcome = ErrorOf(task)

\* C29: a call of generate that is polling while the manager is running
\* with at least one worker loop eventually returns or raises, unless the
\* manager stops running; and every call that returned has the result of
\* its own COMPLETED task, every call that raised the error of its own
\* FAILED task.
C29_GenerateFinishes ==
    /\ \A c \in 1..MaxCalls :
          (g_running /\ Len(g_workers) >= 1 /\ g_callers[c].pc = "polling")
              ~> (Finished(c) \/ ~g_running)
    /\ [](\A c \in DOMAIN g_callers : OwnOutcome(c))

\* every call was made and finished while the manager is running: one
\* raised and the others returned, each with the outcome of its own task
C29_Witness ==
    /\ g_running /\ Len(g_workers) >= 1
    /\ \A c \in DOMAIN g_callers : Finished(c) /\ OwnOutcome(c)
    /\ \E c \in DOMAIN g_callers : g_callers[c].pc = "raised"
    /\ \E c \in DOMAIN g_callers : g_callers[c].pc = "returned"

\* the call of generate that created the task is no longer polling
Released(id) ==
    \A c \in DOMAIN g_callers :
        g_callers[c].task = id => g_callers[c].pc # "polling"

\* the task exists and is PENDING or PROCESSING
StillUnfinished(id) == id \in DOMAIN g_tasks /\ Unfinished(g_tasks[id])

\* C30: after shutdown, every task that is still PENDING or PROCESSING
\* eventually is COMPLETED or FAILED, or its caller is released.
C30_ShutdownReleasesCallers ==
    \A id \in 1..MaxCalls :
        (g_pc = "shutdown" /\ StillUnfinished(id))
            ~> (~StillUnfinished(id) \/ Released(id))

====
